---- MODULE Spec2Model ----
(***************************************************************************)
(* Model of librustuv (green-rs): the block/wakeup protocol of lib.rs, the *)
(* AccessTimeout state machine of timeout.rs, the stream read engine of    *)
(* stream.rs with the Tcp/Pipe facade (uv_read, close_read,                *)
(* set_read_timeout) and the acceptor queue of timeout.rs.                 *)
(*                                                                         *)
(* One event loop, single threaded and cooperative: every action is what   *)
(* one task does between two suspension points, or one reactor callback.   *)
(* A reawakened task is only made runnable; it resumes in a later step, so *)
(* further callbacks may run between its reawakening and its resumption.   *)
(*                                                                         *)
(* A failed assert!() or a reached unreachable!() is recorded in `failed`  *)
(* and stops the program: the failure happens inside the task or inside an *)
(* extern callback of the reactor, and nothing runs after it.              *)
(***************************************************************************)
EXTENDS Integers, Sequences, FiniteSets, TLC

\* Number of tasks; each owns one clone of the shared object.
NTasks == 2
\* Number of connection results the listener callback pushes.
MaxPush == 2
\* Cap on the loop's data slot (the counter of block() has no bound of its own).
MaxBlockers == 3
\* Cap on the number of run() calls in progress on the thread.
MaxDepth == 3
\* Cap on the number of clones of one Tcp, Pipe or Udp alive at a time.
MaxClones == 2
\* Operations on one Timer, and callbacks handed to the Timer and the Signal.
MaxOps == 3
NSignals == 2
MaxEmpty == 2
NIdles == 2
PathLen == 2
Names == {"d1", "t"}
ENOENT == -2
EEXIST == -17
ENOTDIR == -20
ENOTEMPTY == -39
MaxCalls == 2

Tasks == 1..NTasks

\* Option::None for Option<BlockedTask> and the null pointer of a data slot.
None == 0

\* The event loops, by the address of their EventLoop (never null).
Loops == {1, 2}
\* The loop of the scheduler the tasks run on.
TheLoop == 1

\* Reactor error codes (uvll); only the sign and the identity matter.
EOF == -4095
ECANCELED == -125
\* An error of the reactor other than EOF and ECANCELED.
EPIPE == -32
\* The error of EventLoop::borrow
UNKNOWN == -4094
\* A data pointer to a ConnectCtx whose stack frame has returned.
Dangling == -1
\* The data slot of a handle that was allocated and never written.
Uninit == -2

VARIABLES
    \* ---- the loop and the tasks (lib.rs)
    loopData,     \* uv_loop data slot: the blocker count
    pc,           \* pc[t]: where task t is
    cnt,          \* cnt[t]: the local `cnt` of block() in task t
    slot,         \* slot[t]: the Option<BlockedTask> of task t's operation context
    wakes,        \* wakes[t]: reawakens task t received since it last parked
    ret,          \* ret[t]: <<>> or <<r>>, the result of task t's last call
    failed,       \* "" or the assertion that failed
    \* ---- AccessTimeout, one per clone (timeout.rs)
    state,        \* state[t]: State of the clone's AccessTimeout
    timerArmed,   \* timerArmed[t]: the clone's timer is started and has not fired
    \* ---- Access shared by all clones (access.rs)
    held, queue, closed,
    \* ---- the stream handle shared by all clones (stream.rs)
    data,         \* data slot of the handle: None or the task whose ReadContext it points to
    reading,      \* the reactor read is started
    rcxResult,    \* rcxResult[t]: the result field of task t's operation context
    \* ---- AcceptorState (timeout.rs)
    pending,      \* AcceptorState.pending
    blocked_acceptor, \* AcceptorState.blocked_acceptor
    \* ---- history
    pushed,       \* every result pushed, in order
    delivered,    \* every result returned by an accept call, in order of return
    atClose,      \* tasks that were parked or queued when close was called
    afterClose,   \* afterClose[t]: task t's current call started after close returned
    closedAt,     \* number of results pushed before close_accept was first called
    \* ---- ConnectCtx and the connect request, one per task (timeout.rs)
    cxStatus,     \* cxStatus[t]: ConnectCtx.status
    reqData,      \* reqData[t]: data pointer of the uv_connect_t: None, t or Dangling
    reqLive,      \* reqLive[t]: the request is submitted and its callback has not run
    reqFrees,     \* reqFrees[t]: times the request of t's last connect was freed
    reqUaf,       \* reqUaf[t]: that request was read or written after it was freed
    timeoutArg,   \* timeoutArg[t]: the `timeout` argument of task t's connect call
    fired,        \* fired[t]: the callbacks that ran while t was parked in connect
    \* ---- the thread-local current loop (event_loop.rs, libtls)
    tls,          \* the Cells published by the run() calls in progress, innermost last
    borrowed,     \* borrowed[t]: BorrowedEventLoop.local held by t, or None
    borrowDepth,  \* borrowDepth[t]: number of run() calls in progress when t borrowed
    hasIo,        \* <<>> or <<r, n>>: has_active_io returned r with blocker count n
    \* ---- homing (homing.rs) and the task executor
    onLoop,       \* onLoop[t]: the loop whose scheduler runs task t
    missile,      \* missile[t]: t holds a HomingMissile (fire has returned, no drop yet)
    origin,       \* origin[t]: the loop t was on when it last fired a missile
    travel,       \* travel[t]: "no", or t is descheduled on its way home or back
    taken,        \* taken[t]: the local `task` of t's close_read
    wokenOn,      \* wokenOn[t]: the loop on which t's pending reawaken was issued
    \* ---- the cross-thread wakeup queue of each loop (queue.rs)
    wq,           \* wq[l]: the queued messages <<task, target identity>>, oldest first
    asyncPend,    \* asyncPend[l]: the loop's async handle has a send not yet delivered
    cbActive,     \* cbActive[l]: the loop-side callback of the async handle is running
    cbPopped,     \* cbPopped[l]: messages popped by the running callback, counted up to NTasks
    qpc,          \* qpc[t]: "idle", "pushed" (queued, async not yet fired) or "sent"
    qTarget,      \* qTarget[t]: the loop on whose queue t was last put
    qWakes,       \* qWakes[t]: reawakens of t since it was last enqueued
    qWokenOn,     \* qWokenOn[t]: the loop whose callback last reawakened t
    \* ---- one facade object at a time and its reactor handle (raw/mod.rs)
    objKind,      \* "none" or the kind of the facade object
    nClones,      \* facade objects alive that share the handle
    strong,       \* strong count of the Arc around the handle (Tcp, Pipe, Udp)
    inOps,        \* clones with an operation in flight
    everCloned,   \* the facade object was cloned at least once
    hSt,          \* handle: "none", "open", "closing" (uv_close called) or "freed"
    closeReqs,    \* calls of uv_close on the handle
    closeCbs,     \* close callbacks run for the handle
    frees,        \* deallocations of the handle
    \* ---- Async (async.rs)
    aFlag,        \* Data.exit_flag
    aPend,        \* the reactor has a send on the handle to deliver
    aCb,          \* where async_cb is: "idle", "entered", "locked", "called"
    aShould,      \* the local should_exit of async_cb
    aAfterFinal,  \* callback.call() was entered after the destructor's send
    aSendClosed,  \* a send was issued on the handle after uv_close
    \* ---- EventLoop destructor (event_loop.rs)
    poolSt,       \* the queue pool's wakeup handle: "open", "closing", "closed"
    poolFrees,    \* deallocations of the wakeup handle
    elPc,         \* "alive", or the next step of Drop for EventLoop
    elLog,        \* the effects of Drop for EventLoop, in order
    \* ---- one Timer (timer.rs)
    tmSt,         \* "none", "live", "closing" (Drop has run) or "freed"
    tmAction,     \* Data.action
    tmId,         \* Data.id
    tmArmed,      \* the reactor timer: "off", "once" or "repeat"
    tmMs,         \* the timeout the reactor timer was last started with
    tmDur,        \* the dur argument of the last sleep, oneshot or periodic
    tmCall,       \* the action timer_cb is invoking (cb.call() has not returned)
    tmCur,        \* the action installed by the most recent call on the Timer
    tmStale,      \* timer_cb took an action that the most recent call did not install
    \* ---- one Signal (signal.rs)
    sgSt,         \* per Signal: "none", "live" or "closed"
    sgCb,         \* per Signal: Data.callback
    sgOn,         \* per Signal: the reactor signal handle is started
    sgNum,        \* per Signal: the signal number it was started with
    sgSig,        \* the signal number the process received last
    sgHit,        \* the callbacks invoked for that signal
    \* ---- user callbacks and the last facade operation
    nextCb,       \* callbacks created so far; callback c is the c-th one
    tmCbs,        \* the callbacks that were handed to the Timer
    cbDrops,      \* cbDrops[c]: times the destructor of callback c ran
    cbBy,         \* cbBy[c]: the function that dropped callback c
    opName,       \* the last operation on the Timer or the Signal
    opLog,        \* its steps, in program order
    \* ---- the reactor timer of an AccessTimeout (timeout.rs)
    atDur,        \* the milliseconds of the last set_timeout(Some(dur), ..)
    atMs,         \* the timeout its timer was last started with
    \* ---- Udp::recv_from (udp.rs)
    uPc,          \* the receiving task: "idle", "parked" or "woken"
    uBuf,         \* cx.buf is Some
    uTask,        \* cx.task is Some
    uResult,      \* cx.result: None or the nread stored in it
    uStarted,     \* the reactor receive is started (recv_start .. recv_stop)
    uData,        \* data slot of the udp handle: Uninit, None or Dangling + 2
    uLent,        \* the reactor holds the buffer (alloc_cb .. recv_cb)
    uRet,         \* what the last recv_from returned
    uEmpty,       \* empty recv callbacks of the current recv_from
    uTo,          \* read timeout: "none", "pending" or "timedout"
    \* ---- idle handles and the turns of EventLoop::run (event_loop.rs, idle.rs)
    iKind,        \* per idle handle: "none", "onetime" (callback(f)) or "idle"
    iSt,          \* per idle handle: "none", "init", "closing" or "freed"
    iActive,      \* per idle handle: started in the reactor
    iWant,        \* per Idle: the last call was resume()
    iCalls,       \* per idle handle: invocations of its function or callback
    iSeen,        \* per Idle, this turn: "off", "due" or "called"
    iBad,         \* per Idle: its callback was invoked after pause()
    lPc,          \* run(): "out", or the phase of the turn, "idle" or "close"
    lTodo,        \* idle handles the reactor has yet to call in this turn
    \* ---- the filesystem and the recursive helpers (fs.rs)
    fs,           \* fs[p]: "none", "dir", "file" or "link" (a symlink to the
                  \* directory that holds the canary)
    canary,       \* the file of the directory the symlinks point to exists
    fsPhase,      \* "build", "made" (after mkdir_recursive) or "removed"
    fsP,          \* the path given to mkdir_recursive and rmdir_recursive
    fsOrig,       \* fs before mkdir_recursive
    canOrig,      \* canary before mkdir_recursive
    fsRs          \* the results of the two calls

taskVars == <<loopData, pc, cnt, slot, wakes, ret, failed>>
timeoutVars == <<state, timerArmed>>
accessVars == <<held, queue, closed>>
streamVars == <<data, reading, rcxResult>>
acceptVars == <<pending, blocked_acceptor>>
histVars == <<pushed, delivered, atClose, afterClose, closedAt>>
connVars == <<cxStatus, reqData, reqLive, reqFrees, reqUaf, timeoutArg, fired>>
loopVars == <<tls, borrowed, borrowDepth, hasIo>>
homeVars == <<onLoop, missile, origin, travel, taken, wokenOn>>
queueVars == <<wq, asyncPend, cbActive, cbPopped, qpc, qTarget, qWakes, qWokenOn>>
objVars == <<objKind, nClones, strong, inOps, everCloned, hSt, closeReqs, closeCbs,
            frees>>
asyncVars == <<aFlag, aPend, aCb, aShould, aAfterFinal, aSendClosed>>
elVars == <<poolSt, poolFrees, elPc, elLog>>
lifeVars == <<objVars, asyncVars, elVars>>
tmVars == <<tmSt, tmAction, tmId, tmArmed, tmMs, tmDur, tmCall, tmCur, tmStale>>
sgVars == <<sgSt, sgCb, sgOn, sgNum, sgSig, sgHit>>
cbVars == <<nextCb, tmCbs, cbDrops, cbBy, opName, opLog>>
timerVars == <<tmVars, sgVars, cbVars>>
atVars == <<atDur, atMs>>
udpVars == <<uPc, uBuf, uTask, uResult, uStarted, uData, uLent, uRet, uEmpty, uTo>>
idleVars == <<iKind, iSt, iActive, iWant, iCalls, iSeen, iBad, lPc, lTodo>>
fsVars == <<fs, canary, fsPhase, fsP, fsOrig, canOrig, fsRs>>
auxVars == <<atVars, udpVars, idleVars, fsVars>>
moreVars == <<queueVars, lifeVars, timerVars, auxVars>>
extVars == <<connVars, loopVars, homeVars, moreVars>>
\* everything but the wakeup queues and the handles
baseVars == <<taskVars, timeoutVars, accessVars, streamVars, acceptVars, histVars,
              connVars, loopVars, homeVars, timerVars, auxVars>>
\* everything but the tasks, the timer and the signal
quietVars == <<timeoutVars, accessVars, streamVars, acceptVars, histVars, connVars,
               loopVars, homeVars, queueVars, lifeVars, auxVars>>
\* everything up to the timers and signals
coreVars == <<taskVars, timeoutVars, accessVars, streamVars, acceptVars, histVars,
              connVars, loopVars, homeVars, queueVars, lifeVars, timerVars>>
\* everything but `failed` and the variables of atVars, udpVars
stillVars == <<loopData, pc, cnt, slot, wakes, ret, timeoutVars, accessVars, streamVars,
               acceptVars, histVars, connVars, loopVars, homeVars, queueVars, lifeVars,
               timerVars, idleVars, fsVars>>
vars == <<taskVars, timeoutVars, accessVars, streamVars, acceptVars, histVars,
          extVars>>

\* the paths below the root, at most PathLen components long
Paths == UNION {[1..n -> Names] : n \in 1..PathLen}
\* the filesystem with an empty root
NoFs == [p \in Paths |-> "none"]

\* the idle handles of the program
Idles == 1..NIdles

\* the Signal objects of the program
Signals == 1..NSignals

Init ==
    /\ loopData = 0
    /\ pc = [t \in Tasks |-> "idle"]
    /\ cnt = [t \in Tasks |-> 0]
    /\ slot = [t \in Tasks |-> None]
    /\ wakes = [t \in Tasks |-> 0]
    /\ ret = [t \in Tasks |-> <<>>]
    /\ failed = ""
    /\ state = [t \in Tasks |-> "NoTimeout"]
    /\ timerArmed = [t \in Tasks |-> FALSE]
    /\ held = FALSE
    /\ queue = <<>>
    /\ closed = FALSE
    /\ data = None
    /\ reading = FALSE
    /\ rcxResult = [t \in Tasks |-> 0]
    /\ pending = <<>>
    /\ blocked_acceptor = None
    /\ pushed = <<>>
    /\ delivered = <<>>
    /\ atClose = {}
    /\ afterClose = [t \in Tasks |-> FALSE]
    /\ closedAt = 0
    /\ cxStatus = [t \in Tasks |-> -1]
    /\ reqData = [t \in Tasks |-> None]
    /\ reqLive = [t \in Tasks |-> FALSE]
    /\ reqFrees = [t \in Tasks |-> 0]
    /\ reqUaf = [t \in Tasks |-> FALSE]
    /\ timeoutArg = [t \in Tasks |-> "None"]
    /\ fired = [t \in Tasks |-> <<>>]
    /\ tls = <<TheLoop>>
    /\ borrowed = [t \in Tasks |-> None]
    /\ borrowDepth = [t \in Tasks |-> 0]
    /\ hasIo = <<>>
    /\ onLoop = [t \in Tasks |-> TheLoop]
    /\ missile = [t \in Tasks |-> FALSE]
    /\ origin = [t \in Tasks |-> TheLoop]
    /\ travel = [t \in Tasks |-> "no"]
    /\ taken = [t \in Tasks |-> None]
    /\ wokenOn = [t \in Tasks |-> TheLoop]
    /\ wq = [l \in Loops |-> <<>>]
    /\ asyncPend = [l \in Loops |-> FALSE]
    /\ cbActive = [l \in Loops |-> FALSE]
    /\ cbPopped = [l \in Loops |-> 0]
    /\ qpc = [t \in Tasks |-> "idle"]
    /\ qTarget = [t \in Tasks |-> None]
    /\ qWakes = [t \in Tasks |-> 0]
    /\ qWokenOn = [t \in Tasks |-> None]
    /\ objKind = "none"
    /\ nClones = 0
    /\ strong = 0
    /\ inOps = 0
    /\ everCloned = FALSE
    /\ hSt = "none"
    /\ closeReqs = 0
    /\ closeCbs = 0
    /\ frees = 0
    /\ aFlag = FALSE
    /\ aPend = FALSE
    /\ aCb = "idle"
    /\ aShould = FALSE
    /\ aAfterFinal = FALSE
    /\ aSendClosed = FALSE
    /\ poolSt = "open"
    /\ poolFrees = 0
    /\ elPc = "alive"
    /\ elLog = <<>>
    /\ tmSt = "none"
    /\ tmAction = [kind |-> "None", who |-> 0, id |-> 0]
    /\ tmId = 0
    /\ tmArmed = "off"
    /\ tmMs = 0
    /\ tmDur = 0
    /\ tmCall = [kind |-> "None", who |-> 0, id |-> 0]
    /\ tmCur = [kind |-> "None", who |-> 0, id |-> 0]
    /\ tmStale = FALSE
    /\ sgSt = [s \in Signals |-> "none"]
    /\ sgCb = [s \in Signals |-> None]
    /\ sgOn = [s \in Signals |-> FALSE]
    /\ sgNum = [s \in Signals |-> None]
    /\ sgSig = None
    /\ sgHit = {}
    /\ nextCb = 0
    /\ tmCbs = {}
    /\ cbDrops = [c \in 1..MaxOps |-> 0]
    /\ cbBy = [c \in 1..MaxOps |-> ""]
    /\ opName = ""
    /\ opLog = <<>>
    /\ atDur = 0
    /\ atMs = 0
    /\ uPc = "idle"
    /\ uBuf = FALSE
    /\ uTask = FALSE
    /\ uResult = None
    /\ uStarted = FALSE
    /\ uData = Uninit
    /\ uLent = FALSE
    /\ uRet = <<>>
    /\ uEmpty = 0
    /\ uTo = "none"
    /\ iKind = [i \in Idles |-> "none"]
    /\ iSt = [i \in Idles |-> "none"]
    /\ iActive = [i \in Idles |-> FALSE]
    /\ iWant = [i \in Idles |-> FALSE]
    /\ iCalls = [i \in Idles |-> 0]
    /\ iSeen = [i \in Idles |-> "off"]
    /\ iBad = [i \in Idles |-> FALSE]
    /\ lPc = "out"
    /\ lTodo = {}
    /\ fs = NoFs
    /\ canary = TRUE
    /\ fsPhase = "build"
    /\ fsP = <<>>
    /\ fsOrig = NoFs
    /\ canOrig = TRUE
    /\ fsRs = <<>>

(***************************************************************************)
(* lib.rs: block and wakeup                                                *)
(***************************************************************************)

\* block(), before the deschedule: `cnt` is read from the loop's data slot
\* and cnt + 1 is stored.
BlockEnter(ld) == [cnt |-> ld, loopData |-> ld + 1]

\* block(), after the task has resumed: uv_loop.set_data(cnt).
BlockExit(ld, c) == c

\* wakeup(slot) with the slot never emptied.
wakeup_keep(s) ==
    IF s = None THEN [failed |-> TRUE, slot |-> s, woken |-> None]
    ELSE [failed |-> FALSE, slot |-> s, woken |-> s]

\* wakeup(slot): assert!(slot.is_some()); slot.take().unwrap().reawaken()
wakeup(s) ==
    IF s = None THEN [failed |-> TRUE, slot |-> s, woken |-> None]
    ELSE [failed |-> FALSE, slot |-> None, woken |-> s]

\* task.reawaken(): the task becomes runnable
Reawaken(w, t) == IF t = None THEN w ELSE [w EXCEPT ![t] = @ + 1]

Running == failed = ""

(***************************************************************************)
(* The block/wakeup protocol alone: tasks park in block() on operations of *)
(* their own, the reactor delivers completion callbacks for any operation  *)
(* (WriteContext/write_cb of stream.rs is the pattern).                    *)
(***************************************************************************)

\* Stream::write up to the park: block(loop, |task| wcx.task = Some(task))
OpBlock(t) ==
    /\ Running
    /\ UNCHANGED extVars
    /\ pc[t] = "idle"
    /\ loopData < MaxBlockers
    /\ LET b == BlockEnter(loopData) IN
        /\ loopData' = b.loopData
        /\ cnt' = [cnt EXCEPT ![t] = b.cnt]
    /\ pc' = [pc EXCEPT ![t] = "opWait"]
    /\ slot' = [slot EXCEPT ![t] = t]
    /\ wakes' = [wakes EXCEPT ![t] = 0]
    /\ ret' = [ret EXCEPT ![t] = <<>>]
    /\ UNCHANGED <<failed, timeoutVars, accessVars, streamVars, acceptVars, histVars>>

\* write_cb: wcx.result = status; wakeup(&mut wcx.task)
OpCallback(t, status) ==
    /\ Running
    /\ UNCHANGED extVars
    /\ LET w == wakeup(slot[t]) IN
        /\ failed' = IF w.failed THEN "wakeup: assert!(slot.is_some())" ELSE failed
        /\ slot' = [slot EXCEPT ![t] = w.slot]
        /\ wakes' = Reawaken(wakes, w.woken)
        /\ rcxResult' = [rcxResult EXCEPT ![t] = status]
    /\ UNCHANGED <<loopData, pc, cnt, ret, timeoutVars, accessVars, data, reading,
                   acceptVars, histVars>>

\* Stream::write after the park: block() returns, the result is mapped
OpResume(t) ==
    /\ Running
    /\ UNCHANGED extVars
    /\ pc[t] = "opWait"
    /\ wakes[t] > 0
    /\ loopData' = BlockExit(loopData, cnt[t])
    /\ cnt' = [cnt EXCEPT ![t] = 0]
    /\ pc' = [pc EXCEPT ![t] = "idle"]
    /\ wakes' = [wakes EXCEPT ![t] = 0]
    /\ ret' = [ret EXCEPT ![t] = <<rcxResult[t]>>]
    /\ rcxResult' = [rcxResult EXCEPT ![t] = 0]
    /\ UNCHANGED <<slot, failed, timeoutVars, accessVars, data, reading,
                   acceptVars, histVars>>

NextBlock ==
    \E t \in Tasks :
        \/ OpBlock(t)
        \/ \E status \in {0, EPIPE} : OpCallback(t, status)
        \/ OpResume(t)

SpecBlock == Init /\ [][NextBlock]_vars

(***************************************************************************)
(* access.rs: Access<T>, a FIFO queue of waiters, a held flag and a closed *)
(* flag.  A queue entry is the parked task with its token; the token of a  *)
(* clone is the address of its AccessTimeout's Inner, here the task id.    *)
(***************************************************************************)

\* Access::grant(token): with the access held the caller is queued and
\* parked, else it takes the access at once.
AccessGrant(h, q, token) ==
    IF h THEN [parks |-> TRUE, held |-> h, queue |-> Append(q, token)]
    ELSE [parks |-> FALSE, held |-> TRUE, queue |-> q]

\* Drop of access::Guard: the next waiter is handed the access and is
\* reawakened, FIFO; with no waiter the access becomes free.
AccessRelease(h, q) ==
    IF q = <<>> THEN [held |-> FALSE, queue |-> q, woken |-> None]
    ELSE [held |-> h, queue |-> Tail(q), woken |-> Head(q)]

\* Access::dequeue(token): remove the waiter queued with `token`.
AccessDequeue(q, token) ==
    IF \E i \in 1..Len(q) : q[i] = token
    THEN [queue |-> SelectSeq(q, LAMBDA x : x # token), task |-> token]
    ELSE [queue |-> q, task |-> None]

(***************************************************************************)
(* timeout.rs: AccessTimeout.  State is flattened: "NoWaiter",             *)
(* "AccessPending" and "RequestPending" are TimeoutPending(client).        *)
(***************************************************************************)

Pending == {"NoWaiter", "AccessPending", "RequestPending"}

\* AccessTimeout::grant with the first match letting TimedOut through.
grantEnter_noCheck(st) ==
    IF st \in Pending THEN [err |-> FALSE, state |-> "AccessPending"]
    ELSE [err |-> FALSE, state |-> st]

\* AccessTimeout::grant, the match before access.grant
grantEnter(st) ==
    IF st = "TimedOut" THEN [err |-> TRUE, state |-> st]
    ELSE IF st \in Pending THEN [err |-> FALSE, state |-> "AccessPending"]
    ELSE [err |-> FALSE, state |-> st]

\* AccessTimeout::grant, the match after access.grant
grantAcquired(st) ==
    IF st = "TimedOut" THEN [err |-> TRUE, state |-> st]
    ELSE IF st \in Pending THEN [err |-> FALSE, state |-> "RequestPending"]
    ELSE [err |-> FALSE, state |-> st]

\* Drop for timeout::Guard
GuardDrop(st) ==
    IF st \in {"NoWaiter", "AccessPending"}
    THEN [state |-> st, failed |-> "Guard::drop: unreachable!()"]
    ELSE IF st = "RequestPending" THEN [state |-> "NoWaiter", failed |-> ""]
    ELSE [state |-> st, failed |-> ""]

\* timer_cb of AccessTimeout::set_timeout.  `unblocked` is what
\* user_unblock(user_payload) returns; it is called in the RequestPending
\* branch only.
timer_cb(st, q, token, unblocked) ==
    IF st \in {"TimedOut", "NoTimeout"}
    THEN [queue |-> q, woken |-> None, failed |-> "timer_cb: unreachable!() state"]
    ELSE IF st = "NoWaiter"
    THEN [queue |-> q, woken |-> None, failed |-> ""]
    ELSE IF st = "AccessPending"
    THEN LET d == AccessDequeue(q, token) IN
         [queue |-> d.queue, woken |-> d.task,
          failed |-> IF d.task = None THEN "timer_cb: dequeue returned None" ELSE ""]
    ELSE [queue |-> q, woken |-> unblocked,
          failed |-> IF unblocked = None THEN "timer_cb: user_unblock returned None"
                     ELSE ""]

(***************************************************************************)
(* stream.rs: Stream::read, Stream::cancel_read, read_cb                   *)
(***************************************************************************)

\* Stream::cancel_read(reason): read_stop; with a null data slot None, else
\* the slot is nulled, the result overwritten and the task taken.
cancel_read(d, reason) ==
    IF d = None
    THEN [data |-> None, task |-> None, slot |-> slot, rcxResult |-> rcxResult]
    ELSE IF d = Uninit
    THEN \* the slot holds whatever the allocation held: where the program
         \* goes on, the slot is nulled and no task of the model is woken
         [data |-> None, task |-> None, slot |-> slot, rcxResult |-> rcxResult]
    ELSE [data |-> None, task |-> slot[d],
          slot |-> [slot EXCEPT ![d] = None],
          rcxResult |-> [rcxResult EXCEPT ![d] = reason]]

(***************************************************************************)
(* tcp.rs / pipe.rs: uv_read from the moment the Access is acquired.       *)
(* st is the clone's state, h and q the Access's held flag and queue with  *)
(* the grant made, rs the result of read_start.                            *)
(***************************************************************************)

uv_read_acquired(st, h, q, rs) ==
    LET a == grantAcquired(st)
        rel == AccessRelease(h, q)
        g == GuardDrop(a.state)
    IN  IF a.err
        THEN \* line 92: only the access::Guard exists, and is dropped
             [park |-> FALSE, ret |-> ECANCELED, state |-> st, held |-> rel.held,
              queue |-> rel.queue, woken |-> rel.woken, failed |-> "",
              touched |-> FALSE]
        ELSE IF closed
        THEN [park |-> FALSE, ret |-> EOF, state |-> g.state, held |-> rel.held,
              queue |-> rel.queue, woken |-> rel.woken, failed |-> g.failed,
              touched |-> FALSE]
        ELSE IF rs < 0
        THEN \* read_start failed: the data slot is set and nulled again
             [park |-> FALSE, ret |-> rs, state |-> g.state, held |-> rel.held,
              queue |-> rel.queue, woken |-> rel.woken, failed |-> g.failed,
              touched |-> TRUE]
        ELSE [park |-> TRUE, ret |-> 0, state |-> a.state, held |-> h,
              queue |-> q, woken |-> None, failed |-> "", touched |-> TRUE]

\* The step of task t with outcome o of uv_read_acquired.
ApplyRead(t, o) ==
    /\ pc' = [pc EXCEPT ![t] = IF o.park THEN "readWait" ELSE "done"]
    /\ ret' = [ret EXCEPT ![t] = IF o.park THEN <<>> ELSE <<o.ret>>]
    /\ state' = [state EXCEPT ![t] = o.state]
    /\ held' = o.held
    /\ queue' = o.queue
    /\ wakes' = Reawaken([wakes EXCEPT ![t] = 0], o.woken)
    /\ failed' = o.failed
    /\ IF o.park
       THEN LET b == BlockEnter(loopData) IN
            /\ loopData' = b.loopData
            /\ cnt' = [cnt EXCEPT ![t] = b.cnt]
            /\ slot' = [slot EXCEPT ![t] = t]
            /\ data' = t
            /\ reading' = TRUE
            /\ rcxResult' = [rcxResult EXCEPT ![t] = 0]
       ELSE /\ data' = IF o.touched THEN None ELSE data
            /\ UNCHANGED <<loopData, cnt, slot, reading, rcxResult>>

\* Tcp::uv_read / Pipe::uv_read up to the first suspension point or return
UvRead(t, rs) ==
    /\ Running
    /\ UNCHANGED extVars
    /\ pc[t] = "idle"
    /\ loopData < MaxBlockers
    /\ afterClose' = [afterClose EXCEPT ![t] = closed]
    /\ LET e == grantEnter(state[t]) IN
        IF e.err
        THEN /\ pc' = [pc EXCEPT ![t] = "done"]
             /\ ret' = [ret EXCEPT ![t] = <<ECANCELED>>]
             /\ UNCHANGED <<loopData, cnt, slot, wakes, failed, timeoutVars,
                            accessVars, streamVars>>
        ELSE LET a == AccessGrant(held, queue, t) IN
        IF a.parks
        THEN /\ pc' = [pc EXCEPT ![t] = "grantWait"]
             /\ ret' = [ret EXCEPT ![t] = <<>>]
             /\ state' = [state EXCEPT ![t] = e.state]
             /\ queue' = a.queue
             /\ held' = a.held
             /\ wakes' = [wakes EXCEPT ![t] = 0]
             /\ UNCHANGED <<loopData, cnt, slot, failed, timerArmed, closed,
                            streamVars>>
        ELSE /\ ApplyRead(t, uv_read_acquired(e.state, a.held, a.queue, rs))
             /\ UNCHANGED <<timerArmed, closed>>
    /\ UNCHANGED <<acceptVars, pushed, closedAt, delivered, atClose>>

\* The task parked in Access::grant resumes and goes on in uv_read
GrantResume(t, rs) ==
    /\ Running
    /\ UNCHANGED extVars
    /\ pc[t] = "grantWait"
    /\ wakes[t] > 0
    /\ loopData < MaxBlockers
    /\ ApplyRead(t, uv_read_acquired(state[t], held, queue, rs))
    /\ UNCHANGED <<timerArmed, closed, acceptVars, histVars>>

\* read_cb: read_stop, rcx.result = nread, wakeup(&mut rcx.task)
ReadCb(nread) ==
    /\ Running
    /\ UNCHANGED extVars
    /\ reading
    /\ reading' = FALSE
    /\ IF data = None
       THEN /\ failed' = "read_cb: null ReadContext"
            /\ UNCHANGED <<slot, wakes, rcxResult>>
       ELSE LET w == wakeup(slot[data]) IN
            /\ rcxResult' = [rcxResult EXCEPT ![data] = nread]
            /\ slot' = [slot EXCEPT ![data] = w.slot]
            /\ wakes' = Reawaken(wakes, w.woken)
            /\ failed' = IF w.failed THEN "wakeup: assert!(slot.is_some())" ELSE failed
    /\ UNCHANGED <<loopData, pc, cnt, ret, timeoutVars, accessVars, data,
                   acceptVars, histVars>>

\* Stream::read after the park (n < 0 is Err(n), else Ok(n): a UvResult<uint>
\* is kept as one integer, negative for Err), then the guards of uv_read are
\* dropped
ReadResumeBody(t) ==
    /\ loopData' = BlockExit(loopData, cnt[t])
    /\ cnt' = [cnt EXCEPT ![t] = 0]
    /\ pc' = [pc EXCEPT ![t] = "done"]
    /\ ret' = [ret EXCEPT ![t] = <<rcxResult[t]>>]
    /\ data' = None
    /\ rcxResult' = [rcxResult EXCEPT ![t] = 0]
    /\ LET g == GuardDrop(state[t])
           rel == AccessRelease(held, queue)
       IN /\ state' = [state EXCEPT ![t] = g.state]
          /\ failed' = g.failed
          /\ held' = rel.held
          /\ queue' = rel.queue
          /\ wakes' = Reawaken([wakes EXCEPT ![t] = 0], rel.woken)
    /\ UNCHANGED <<slot, timerArmed, closed, reading, acceptVars, histVars>>

\* The task parked in Stream::read resumes
ReadResume(t) ==
    /\ Running
    /\ UNCHANGED extVars
    /\ pc[t] = "readWait"
    /\ wakes[t] > 0
    /\ ReadResumeBody(t)

\* The task takes the result of its call and goes on
TaskContinue(t) ==
    /\ Running
    /\ timeoutArg' = [timeoutArg EXCEPT ![t] = "None"]
    /\ fired' = [fired EXCEPT ![t] = <<>>]
    /\ UNCHANGED <<cxStatus, reqData, reqLive, reqFrees, reqUaf, loopVars, homeVars,
                   moreVars>>
    /\ pc[t] = "done"
    /\ pc' = [pc EXCEPT ![t] = "idle"]
    /\ ret' = [ret EXCEPT ![t] = <<>>]
    /\ afterClose' = [afterClose EXCEPT ![t] = FALSE]
    /\ atClose' = atClose \ {t}
    /\ UNCHANGED <<loopData, cnt, slot, wakes, failed, timeoutVars, accessVars,
                   streamVars, acceptVars, pushed, closedAt, delivered>>

\* set_timeout that leaves the timer running when the timeout is taken off
set_timeout_noStop(dur) ==
    IF dur = "None" THEN [state |-> "NoTimeout", armed |-> TRUE]
    ELSE [state |-> "NoWaiter", armed |-> TRUE]

\* AccessTimeout::set_timeout(dur, ..): dur is "None" or "Some"
set_timeout(dur) ==
    IF dur = "None" THEN [state |-> "NoTimeout", armed |-> FALSE]
    ELSE [state |-> "NoWaiter", armed |-> TRUE]

\* Tcp::set_read_timeout / Pipe::set_read_timeout
SetReadTimeout(t, dur) ==
    /\ Running
    /\ UNCHANGED extVars
    /\ pc[t] = "idle"
    /\ LET s == set_timeout(dur) IN
        /\ state' = [state EXCEPT ![t] = s.state]
        /\ timerArmed' = [timerArmed EXCEPT ![t] = s.armed]
    /\ UNCHANGED <<taskVars, accessVars, streamVars, acceptVars, histVars>>

\* The clone's timer fires: timer_cb with user_unblock = cancel_read(ECANCELED)
ReadTimerCb(t) ==
    /\ Running
    /\ UNCHANGED extVars
    /\ timerArmed[t]
    /\ timerArmed' = [timerArmed EXCEPT ![t] = FALSE]
    /\ state' = [state EXCEPT ![t] = "TimedOut"]
    /\ LET c == cancel_read(data, ECANCELED)
           r == timer_cb(state[t], queue, t, c.task)
       IN /\ queue' = r.queue
          /\ wakes' = Reawaken(wakes, r.woken)
          /\ failed' = r.failed
          /\ IF state[t] = "RequestPending"
             THEN /\ reading' = FALSE
                  /\ data' = c.data
                  /\ slot' = c.slot
                  /\ rcxResult' = c.rcxResult
             ELSE UNCHANGED <<reading, data, slot, rcxResult>>
    /\ UNCHANGED <<loopData, pc, cnt, ret, held, closed, acceptVars, histVars>>

\* Tcp::close_read / Pipe::close_read: flag the Access closed, then cancel
\* the read in flight with EOF and reawaken its task
CloseRead(t) ==
    /\ Running
    /\ UNCHANGED extVars
    /\ pc[t] = "idle"
    /\ closed' = TRUE
    /\ atClose' = atClose \cup
           {u \in Tasks : pc[u] \in {"readWait", "grantWait"} /\ wakes[u] = 0}
    /\ LET c == cancel_read(data, EOF) IN
        /\ reading' = FALSE
        /\ data' = c.data
        /\ slot' = c.slot
        /\ rcxResult' = c.rcxResult
        /\ wakes' = Reawaken(wakes, c.task)
    /\ \E wild \in BOOLEAN :
          /\ wild => data = Uninit
          /\ failed' = IF wild THEN "cancel_read: uninitialized data slot" ELSE failed
    /\ UNCHANGED <<loopData, pc, cnt, ret, timeoutVars, held, queue,
                   acceptVars, pushed, closedAt, delivered, afterClose>>

NextRead ==
    \/ \E t \in Tasks :
        \/ \E rs \in {0, EPIPE} : UvRead(t, rs)
        \/ \E rs \in {0, EPIPE} : GrantResume(t, rs)
        \/ ReadResume(t)
        \/ TaskContinue(t)
        \/ \E dur \in {"None", "Some"} : SetReadTimeout(t, dur)
        \/ ReadTimerCb(t)
        \/ CloseRead(t)
    \/ \E nread \in {1, EOF} : ReadCb(nread)

SpecRead == Init /\ [][NextRead]_vars

(***************************************************************************)
(* Construction of the stream objects.  Init is a Tcp made by Tcp::new;    *)
(* here the object is dropped while no task uses it and a new Tcp or Pipe  *)
(* is made in its place.                                                   *)
(***************************************************************************)

StreamKinds == {"tcp", "pipe"}

\* The `init` argument of Stream::new: Tcp::new passes true, Pipe::new false
stream_init(k) == k = "tcp"

\* Stream::new(stream, init): if init { stream.set_data(0 as *mut _); }
\* d is the data slot of the handle as it was allocated.
stream_new(d, init) == IF init THEN None ELSE d

\* Tcp::new / Pipe::new: a new handle (Raw::new, heap::allocate), a new
\* Access and a new AccessTimeout
StreamNew(k) ==
    /\ Running
    /\ UNCHANGED extVars
    /\ \A t \in Tasks : pc[t] = "idle"
    /\ ~reading
    /\ data' = stream_new(Uninit, stream_init(k))
    /\ held' = FALSE
    /\ queue' = <<>>
    /\ closed' = FALSE
    /\ state' = [t \in Tasks |-> "NoTimeout"]
    /\ timerArmed' = [t \in Tasks |-> FALSE]
    /\ atClose' = {}
    /\ UNCHANGED <<taskVars, reading, rcxResult, acceptVars, pushed, delivered,
                   afterClose, closedAt>>

NextStream ==
    \/ NextRead
    \/ \E k \in StreamKinds : StreamNew(k)

SpecStream == Init /\ [][NextStream]_vars

(***************************************************************************)
(* timeout.rs: AcceptTimeout and Pusher.  A connection result is kept as   *)
(* its number in the order of the pushes (1, 2, ..); the results of accept *)
(* are that number, or EOF, or ECANCELED.                                  *)
(***************************************************************************)

\* Pusher::push with the result put at the front of pending.
push_front(p, msg) == <<msg>> \o p

\* Pusher::push: (*state).pending.push(t)
push(p, msg) == Append(p, msg)

\* Vec::remove(0) on pending: the first result, if any, and the rest
remove0(p) ==
    IF p = <<>> THEN [msg |-> None, rest |-> p]
    ELSE [msg |-> Head(p), rest |-> Tail(p)]

\* AcceptTimeout::accept from the moment the Access is acquired up to the
\* first suspension point or return.
accept_acquired(st, h, q) ==
    LET a == grantAcquired(st)
        rel == AccessRelease(h, q)
        g == GuardDrop(a.state)
        r == remove0(pending)
    IN  IF a.err
        THEN [park |-> FALSE, ret |-> ECANCELED, state |-> st, held |-> rel.held,
              queue |-> rel.queue, woken |-> rel.woken, failed |-> "",
              pending |-> pending]
        ELSE IF closed
        THEN [park |-> FALSE, ret |-> EOF, state |-> g.state, held |-> rel.held,
              queue |-> rel.queue, woken |-> rel.woken, failed |-> g.failed,
              pending |-> pending]
        ELSE IF r.msg # None
        THEN [park |-> FALSE, ret |-> r.msg, state |-> g.state, held |-> rel.held,
              queue |-> rel.queue, woken |-> rel.woken, failed |-> g.failed,
              pending |-> r.rest]
        ELSE [park |-> TRUE, ret |-> 0, state |-> a.state, held |-> h,
              queue |-> q, woken |-> None, failed |-> "", pending |-> pending]

\* AcceptTimeout::accept after block() has returned: the match on
\* pending.remove(0), whose guard `_ if is_closed()` is tried first.
accept_resumed(p, isClosed) ==
    LET r == remove0(p) IN
    IF isClosed THEN [ret |-> EOF, pending |-> r.rest]
    ELSE IF r.msg # None THEN [ret |-> r.msg, pending |-> r.rest]
    ELSE [ret |-> ECANCELED, pending |-> r.rest]

\* The results an accept call hands to its caller are recorded
Deliver(d, r) == IF r > 0 THEN Append(d, r) ELSE d

\* The step of task t with outcome o of accept_acquired.
ApplyAccept(t, o) ==
    /\ pc' = [pc EXCEPT ![t] = IF o.park THEN "acceptWait" ELSE "done"]
    /\ ret' = [ret EXCEPT ![t] = IF o.park THEN <<>> ELSE <<o.ret>>]
    /\ state' = [state EXCEPT ![t] = o.state]
    /\ held' = o.held
    /\ queue' = o.queue
    /\ wakes' = Reawaken([wakes EXCEPT ![t] = 0], o.woken)
    /\ failed' = o.failed
    /\ pending' = o.pending
    /\ delivered' = IF o.park THEN delivered ELSE Deliver(delivered, o.ret)
    /\ IF o.park
       THEN LET b == BlockEnter(loopData) IN
            /\ loopData' = b.loopData
            /\ cnt' = [cnt EXCEPT ![t] = b.cnt]
            /\ blocked_acceptor' = t
       ELSE UNCHANGED <<loopData, cnt, blocked_acceptor>>

\* TcpAcceptor::accept / AcceptTimeout::accept up to the first suspension
\* point or return
Accept(t) ==
    /\ Running
    /\ UNCHANGED extVars
    /\ pc[t] = "idle"
    /\ loopData < MaxBlockers
    /\ afterClose' = [afterClose EXCEPT ![t] = closed]
    /\ IF state[t] = "TimedOut" /\ ~closed
       THEN \* timed out and not closed: poll the queue
            LET r == remove0(pending) IN
            /\ pc' = [pc EXCEPT ![t] = "done"]
            /\ ret' = [ret EXCEPT ![t] =
                          IF r.msg # None THEN <<r.msg>> ELSE <<ECANCELED>>]
            /\ pending' = r.rest
            /\ delivered' = Deliver(delivered, r.msg)
            /\ UNCHANGED <<loopData, cnt, wakes, failed, state, held, queue,
                           blocked_acceptor>>
       ELSE LET e == grantEnter(state[t]) IN
            IF e.err
            THEN /\ pc' = [pc EXCEPT ![t] = "done"]
                 /\ ret' = [ret EXCEPT ![t] = <<ECANCELED>>]
                 /\ UNCHANGED <<loopData, cnt, wakes, failed, state, held, queue,
                                acceptVars, delivered>>
            ELSE LET a == AccessGrant(held, queue, t) IN
            IF a.parks
            THEN /\ pc' = [pc EXCEPT ![t] = "grantWait"]
                 /\ ret' = [ret EXCEPT ![t] = <<>>]
                 /\ state' = [state EXCEPT ![t] = e.state]
                 /\ queue' = a.queue
                 /\ held' = a.held
                 /\ wakes' = [wakes EXCEPT ![t] = 0]
                 /\ UNCHANGED <<loopData, cnt, failed, acceptVars, delivered>>
            ELSE ApplyAccept(t, accept_acquired(e.state, a.held, a.queue))
    /\ UNCHANGED <<slot, timerArmed, closed, streamVars, pushed, closedAt, atClose>>

\* The task parked in Access::grant resumes and goes on in accept
AcceptGrantResume(t) ==
    /\ Running
    /\ UNCHANGED extVars
    /\ pc[t] = "grantWait"
    /\ wakes[t] > 0
    /\ loopData < MaxBlockers
    /\ ApplyAccept(t, accept_acquired(state[t], held, queue))
    /\ UNCHANGED <<slot, timerArmed, closed, streamVars, pushed, closedAt, atClose, afterClose>>

\* accept after the park; then the guards are dropped
AcceptResume(t) ==
    /\ Running
    /\ UNCHANGED extVars
    /\ pc[t] = "acceptWait"
    /\ wakes[t] > 0
    /\ loopData' = BlockExit(loopData, cnt[t])
    /\ cnt' = [cnt EXCEPT ![t] = 0]
    /\ pc' = [pc EXCEPT ![t] = "done"]
    /\ LET r == accept_resumed(pending, closed)
           g == GuardDrop(state[t])
           rel == AccessRelease(held, queue)
       IN /\ ret' = [ret EXCEPT ![t] = <<r.ret>>]
          /\ pending' = r.pending
          /\ delivered' = Deliver(delivered, r.ret)
          /\ state' = [state EXCEPT ![t] = g.state]
          /\ failed' = g.failed
          /\ held' = rel.held
          /\ queue' = rel.queue
          /\ wakes' = Reawaken([wakes EXCEPT ![t] = 0], rel.woken)
    /\ UNCHANGED <<slot, timerArmed, closed, streamVars, blocked_acceptor, pushed, closedAt,
                   atClose, afterClose>>

\* listen_cb: the new connection's result is pushed and a parked acceptor
\* is reawakened
Push ==
    /\ Running
    /\ UNCHANGED extVars
    /\ Len(pushed) < MaxPush
    /\ LET msg == Len(pushed) + 1 IN
        /\ pending' = push(pending, msg)
        /\ pushed' = Append(pushed, msg)
    /\ blocked_acceptor' = None
    /\ wakes' = Reawaken(wakes, blocked_acceptor)
    /\ UNCHANGED <<loopData, pc, cnt, slot, ret, failed, timeoutVars, accessVars,
                   streamVars, delivered, atClose, afterClose, closedAt>>

\* TcpAcceptor::set_timeout / AcceptTimeout::set_timeout
SetAcceptTimeout(t, dur) ==
    /\ Running
    /\ UNCHANGED extVars
    /\ pc[t] = "idle"
    /\ LET s == set_timeout(dur) IN
        /\ state' = [state EXCEPT ![t] = s.state]
        /\ timerArmed' = [timerArmed EXCEPT ![t] = s.armed]
    /\ UNCHANGED <<taskVars, accessVars, streamVars, acceptVars, histVars>>

\* The clone's timer fires: timer_cb with user_unblock = cancel_accept,
\* which is me.blocked_acceptor.take()
AcceptTimerCb(t) ==
    /\ Running
    /\ UNCHANGED extVars
    /\ timerArmed[t]
    /\ timerArmed' = [timerArmed EXCEPT ![t] = FALSE]
    /\ state' = [state EXCEPT ![t] = "TimedOut"]
    /\ LET r == timer_cb(state[t], queue, t, blocked_acceptor) IN
        /\ queue' = r.queue
        /\ wakes' = Reawaken(wakes, r.woken)
        /\ failed' = r.failed
        /\ blocked_acceptor' =
              IF state[t] = "RequestPending" THEN None ELSE blocked_acceptor
    /\ UNCHANGED <<loopData, pc, cnt, slot, ret, held, closed, streamVars, pending,
                   histVars>>

\* TcpAcceptor::close_accept / AcceptTimeout::close
CloseAccept(t) ==
    /\ Running
    /\ UNCHANGED extVars
    /\ pc[t] = "idle"
    /\ closed' = TRUE
    /\ atClose' = atClose \cup {u \in Tasks : pc[u] = "acceptWait" /\ wakes[u] = 0}
    /\ closedAt' = IF closed THEN closedAt ELSE Len(pushed)
    /\ blocked_acceptor' = None
    /\ wakes' = Reawaken(wakes, blocked_acceptor)
    /\ UNCHANGED <<loopData, pc, cnt, slot, ret, failed, timeoutVars, held, queue,
                   streamVars, pending, pushed, delivered, afterClose>>

NextAccept ==
    \/ \E t \in Tasks :
        \/ Accept(t)
        \/ AcceptGrantResume(t)
        \/ AcceptResume(t)
        \/ TaskContinue(t)
        \/ \E dur \in {"None", "Some"} : SetAcceptTimeout(t, dur)
        \/ AcceptTimerCb(t)
        \/ CloseAccept(t)
    \/ Push

SpecAccept == Init /\ [][NextAccept]_vars

(***************************************************************************)
(* event_loop.rs and libtls: the thread-local current loop.  Every run()   *)
(* publishes a Cell of its own holding the loop's address; the key points  *)
(* to the Cell of the innermost run() in progress.                         *)
(***************************************************************************)

\* EventLoop::borrow: with no Cell published, or with 0 in the Cell, an
\* error; else the Cell is set to 0 and its loop is returned.
borrow(cells) ==
    IF cells = <<>> THEN [err |-> TRUE, local |-> None, tls |-> cells]
    ELSE IF cells[Len(cells)] = 0 THEN [err |-> TRUE, local |-> None, tls |-> cells]
    ELSE [err |-> FALSE, local |-> cells[Len(cells)],
          tls |-> [cells EXCEPT ![Len(cells)] = 0]]

\* Drop for BorrowedEventLoop: local_loop.get(|l| l.unwrap().set(self.local))
unborrow(cells, local) ==
    IF cells = <<>> THEN [failed |-> TRUE, tls |-> cells]
    ELSE [failed |-> FALSE, tls |-> [cells EXCEPT ![Len(cells)] = local]]

\* EventLoop::has_active_io, for a loop whose blocker count is n
has_active_io(n) == TRUE

\* Key::set as run() uses it: the key is pointed to the new Cell, whatever
\* it pointed to before; the previous pointer is kept for the return.
key_set(cells, l) == Append(cells, l)

\* Drop for Reset, when run() returns: the key points to the previous Cell
key_reset(cells) == SubSeq(cells, 1, Len(cells) - 1)

\* EventLoop::run of loop l is called on the thread, from the top level or
\* from code that runs inside a run() in progress (a callback, a task)
Run(l) ==
    /\ Running
    /\ UNCHANGED <<homeVars, moreVars>>
    /\ Len(tls) < MaxDepth
    /\ tls' = key_set(tls, l)
    /\ UNCHANGED <<taskVars, timeoutVars, accessVars, streamVars, acceptVars,
                   histVars, connVars, borrowed, borrowDepth, hasIo>>

\* The innermost run() returns; what was borrowed inside it has been
\* dropped (a BorrowedEventLoop is a local of code that the run() calls)
RunReturn ==
    /\ Running
    /\ UNCHANGED <<homeVars, moreVars>>
    /\ tls # <<>>
    /\ \A t \in Tasks : borrowed[t] # None => borrowDepth[t] < Len(tls)
    /\ tls' = key_reset(tls)
    /\ UNCHANGED <<taskVars, timeoutVars, accessVars, streamVars, acceptVars,
                   histVars, connVars, borrowed, borrowDepth, hasIo>>

\* Code context t calls EventLoop::borrow() and keeps what it gets; ret[t]
\* is <<0>> for Ok and <<UNKNOWN>> for the error
Borrow(t) ==
    /\ Running
    /\ UNCHANGED <<homeVars, moreVars>>
    /\ pc[t] = "idle"
    /\ borrowed[t] = None
    /\ LET b == borrow(tls) IN
        /\ tls' = b.tls
        /\ borrowed' = [borrowed EXCEPT ![t] = b.local]
        /\ borrowDepth' = [borrowDepth EXCEPT ![t] = IF b.err THEN 0 ELSE Len(tls)]
        /\ ret' = [ret EXCEPT ![t] = IF b.err THEN <<UNKNOWN>> ELSE <<0>>]
    /\ UNCHANGED <<loopData, pc, cnt, slot, wakes, failed, timeoutVars, accessVars,
                   streamVars, acceptVars, histVars, connVars, hasIo>>

\* Context t, running inside the run() it borrowed in, drops its
\* BorrowedEventLoop
DropBorrow(t) ==
    /\ Running
    /\ UNCHANGED <<homeVars, moreVars>>
    /\ borrowed[t] # None
    /\ borrowDepth[t] = Len(tls)
    /\ LET u == unborrow(tls, borrowed[t]) IN
        /\ tls' = u.tls
        /\ failed' = IF u.failed THEN "BorrowedEventLoop::drop: unwrap on None" ELSE ""
    /\ borrowed' = [borrowed EXCEPT ![t] = None]
    /\ borrowDepth' = [borrowDepth EXCEPT ![t] = 0]
    /\ ret' = [ret EXCEPT ![t] = <<>>]
    /\ UNCHANGED <<loopData, pc, cnt, slot, wakes, timeoutVars, accessVars,
                   streamVars, acceptVars, histVars, connVars, hasIo>>

NextLoop ==
    \/ \E l \in Loops : Run(l)
    \/ RunReturn
    \/ \E t \in Tasks : Borrow(t) \/ DropBorrow(t)

SpecLoop == Init /\ [][NextLoop]_vars

(***************************************************************************)
(* timeout.rs: ConnectCtx::connect reached through Tcp::connect and        *)
(* Tcp::connect_timeout, which borrow the thread-local loop for the whole  *)
(* call.  A task has at most one connect request in the reactor.           *)
(***************************************************************************)

\* connect_cb without the timer stop.
connect_cb_noStop(status, d, cxs, armed, s) ==
    IF status = ECANCELED \/ d = None
    THEN [ub |-> FALSE, status |-> cxs, armed |-> armed, slot |-> s, woken |-> None,
          failed |-> FALSE]
    ELSE IF d = Dangling
    THEN [ub |-> TRUE, status |-> cxs, armed |-> armed, slot |-> s, woken |-> None,
          failed |-> FALSE]
    ELSE IF s # None
    THEN LET w == wakeup(s) IN
         [ub |-> FALSE, status |-> status, armed |-> armed, slot |-> w.slot,
          woken |-> w.woken, failed |-> w.failed]
    ELSE [ub |-> FALSE, status |-> status, armed |-> armed, slot |-> s,
          woken |-> None, failed |-> FALSE]

\* connect_cb(req, status), with d the request's data pointer, cxs the
\* status field and s the task slot of the ConnectCtx, armed its timer
connect_cb(status, d, cxs, armed, s) ==
    IF status = ECANCELED \/ d = None
    THEN [ub |-> FALSE, status |-> cxs, armed |-> armed, slot |-> s, woken |-> None,
          failed |-> FALSE]
    ELSE IF d = Dangling
    THEN [ub |-> TRUE, status |-> cxs, armed |-> armed, slot |-> s, woken |-> None,
          failed |-> FALSE]
    ELSE IF s # None
    THEN LET w == wakeup(s) IN
         [ub |-> FALSE, status |-> status, armed |-> FALSE, slot |-> w.slot,
          woken |-> w.woken, failed |-> w.failed]
    ELSE [ub |-> FALSE, status |-> status, armed |-> FALSE, slot |-> s,
          woken |-> None, failed |-> FALSE]

\* connect_cb frees the request on each of its three paths (req.free())
connect_cb_frees == 1

\* timer_cb of ConnectCtx::connect: cx.status = ECANCELED; wakeup(&mut cx.task)
connect_timer_cb(s) ==
    LET w == wakeup(s) IN
    [status |-> ECANCELED, slot |-> w.slot, woken |-> w.woken, failed |-> w.failed]

\* Tcp::connect (timeout "None") / Tcp::connect_timeout ("Zero": a duration
\* <= 0, "Pos": a positive one) up to the park or the return.  rs is the
\* result of submitting the request (f(req, &obj, connect_cb)).  The
\* BorrowedEventLoop is a temporary of the calling statement: it is dropped
\* when connect_on has returned.
Connect(t, timeout, rs) ==
    /\ Running
    /\ UNCHANGED <<homeVars, moreVars>>
    /\ pc[t] = "idle"
    /\ ~reqLive[t]
    /\ loopData < MaxBlockers
    /\ timeoutArg' = [timeoutArg EXCEPT ![t] = timeout]
    /\ fired' = [fired EXCEPT ![t] = <<>>]
    /\ reqUaf' = [reqUaf EXCEPT ![t] = FALSE]
    /\ LET b == borrow(tls) IN
       IF b.err
       THEN /\ pc' = [pc EXCEPT ![t] = "done"]
            /\ ret' = [ret EXCEPT ![t] = <<UNKNOWN>>]
            /\ reqFrees' = [reqFrees EXCEPT ![t] = 0]
            /\ UNCHANGED <<loopData, cnt, slot, wakes, failed, timerArmed, cxStatus,
                           reqData, reqLive, tls, borrowed, borrowDepth>>
       ELSE IF rs # 0
       THEN \* the request could not be submitted: req.free(); Err(e)
            /\ reqFrees' = [reqFrees EXCEPT ![t] = 1]
            /\ pc' = [pc EXCEPT ![t] = "done"]
            /\ ret' = [ret EXCEPT ![t] = <<rs>>]
            /\ tls' = unborrow(b.tls, b.local).tls
            /\ cxStatus' = [cxStatus EXCEPT ![t] = -1]
            /\ UNCHANGED <<loopData, cnt, slot, wakes, failed, timerArmed, reqData,
                           reqLive, borrowed, borrowDepth>>
       ELSE IF timeout = "Zero"
       THEN \* the request is in the reactor, its data points to `self`,
            \* and connect returns: obj is dropped and its handle closed
            /\ pc' = [pc EXCEPT ![t] = "done"]
            /\ ret' = [ret EXCEPT ![t] = <<ECANCELED>>]
            /\ reqFrees' = [reqFrees EXCEPT ![t] = 0]
            /\ reqLive' = [reqLive EXCEPT ![t] = TRUE]
            /\ reqData' = [reqData EXCEPT ![t] = Dangling]
            /\ tls' = unborrow(b.tls, b.local).tls
            /\ cxStatus' = [cxStatus EXCEPT ![t] = -1]
            /\ UNCHANGED <<loopData, cnt, slot, wakes, failed, timerArmed, borrowed,
                           borrowDepth>>
       ELSE LET e == BlockEnter(loopData) IN
            /\ pc' = [pc EXCEPT ![t] = "connWait"]
            /\ ret' = [ret EXCEPT ![t] = <<>>]
            /\ reqFrees' = [reqFrees EXCEPT ![t] = 0]
            /\ reqLive' = [reqLive EXCEPT ![t] = TRUE]
            /\ reqData' = [reqData EXCEPT ![t] = t]
            /\ cxStatus' = [cxStatus EXCEPT ![t] = -1]
            /\ timerArmed' = [timerArmed EXCEPT ![t] = (timeout = "Pos")]
            /\ slot' = [slot EXCEPT ![t] = t]
            /\ wakes' = [wakes EXCEPT ![t] = 0]
            /\ loopData' = e.loopData
            /\ cnt' = [cnt EXCEPT ![t] = e.cnt]
            /\ tls' = b.tls
            /\ borrowed' = [borrowed EXCEPT ![t] = b.local]
            /\ borrowDepth' = [borrowDepth EXCEPT ![t] = Len(tls)]
            /\ UNCHANGED failed
    /\ UNCHANGED <<state, accessVars, streamVars, acceptVars, histVars, hasIo>>

\* The reactor runs connect_cb for task t's request.  While the task's
\* handle is open the status is that of the connection attempt; once the
\* handle is closed it is ECANCELED or, on some platforms, another error.
\* With a dangling data pointer the callback's behaviour is undefined: it
\* may go unnoticed or stop the program.
ConnectCb(t, status) ==
    /\ Running
    /\ UNCHANGED <<homeVars, moreVars>>
    /\ reqLive[t]
    /\ status \in (IF pc[t] = "connWait" THEN {0, EPIPE} ELSE {ECANCELED, EPIPE})
    /\ reqLive' = [reqLive EXCEPT ![t] = FALSE]
    /\ LET r == connect_cb(status, reqData[t], cxStatus[t], timerArmed[t], slot[t]) IN
        /\ cxStatus' = [cxStatus EXCEPT ![t] = r.status]
        /\ timerArmed' = [timerArmed EXCEPT ![t] = r.armed]
        /\ slot' = [slot EXCEPT ![t] = r.slot]
        /\ wakes' = Reawaken(wakes, r.woken)
        /\ fired' = [fired EXCEPT ![t] =
                        IF pc[t] = "connWait"
                        THEN Append(@, [by |-> "connect", status |-> status])
                        ELSE @]
        /\ \E crash \in BOOLEAN :
              /\ crash => r.ub
              /\ failed' = IF r.failed THEN "wakeup: assert!(slot.is_some())"
                           ELSE IF crash THEN "connect_cb: dangling ConnectCtx"
                           ELSE ""
    /\ reqData' = [reqData EXCEPT ![t] = None]
    /\ reqFrees' = [reqFrees EXCEPT ![t] = @ + connect_cb_frees]
    /\ UNCHANGED <<loopData, pc, cnt, ret, state, accessVars, streamVars, acceptVars,
                   histVars, reqUaf, timeoutArg, loopVars>>

\* The timer of task t's connect fires
ConnectTimerCb(t) ==
    /\ Running
    /\ UNCHANGED <<homeVars, moreVars>>
    /\ pc[t] = "connWait"
    /\ timerArmed[t]
    /\ timerArmed' = [timerArmed EXCEPT ![t] = FALSE]
    /\ LET r == connect_timer_cb(slot[t]) IN
        /\ cxStatus' = [cxStatus EXCEPT ![t] = r.status]
        /\ slot' = [slot EXCEPT ![t] = r.slot]
        /\ wakes' = Reawaken(wakes, r.woken)
        /\ failed' = IF r.failed THEN "wakeup: assert!(slot.is_some())" ELSE ""
    /\ fired' = [fired EXCEPT ![t] = Append(@, [by |-> "timer", status |-> ECANCELED])]
    /\ UNCHANGED <<loopData, pc, cnt, ret, state, accessVars, streamVars, acceptVars,
                   histVars, reqData, reqLive, reqFrees, reqUaf, timeoutArg, loopVars>>

\* connect after block() has returned: the request's data is cleared, the
\* timer closed, the result is self.status (0: Ok(obj); n: obj is dropped
\* and Err(n)), and the caller's BorrowedEventLoop is dropped.  Clearing the
\* data writes to the request; on a request that connect_cb has freed the
\* write is undefined: it may go unnoticed or stop the program.
ConnectResume(t) ==
    /\ Running
    /\ UNCHANGED <<homeVars, moreVars>>
    /\ pc[t] = "connWait"
    /\ wakes[t] > 0
    /\ loopData' = BlockExit(loopData, cnt[t])
    /\ cnt' = [cnt EXCEPT ![t] = 0]
    /\ wakes' = [wakes EXCEPT ![t] = 0]
    /\ pc' = [pc EXCEPT ![t] = "done"]
    /\ reqData' = [reqData EXCEPT ![t] = None]
    /\ reqUaf' = [reqUaf EXCEPT ![t] = reqFrees[t] > 0]
    /\ timerArmed' = [timerArmed EXCEPT ![t] = FALSE]
    /\ ret' = [ret EXCEPT ![t] = <<cxStatus[t]>>]
    /\ LET u == unborrow(tls, borrowed[t]) IN
        /\ tls' = u.tls
        /\ \E crash \in BOOLEAN :
              /\ crash => reqFrees[t] > 0
              /\ failed' = IF crash THEN "connect: set_data on a freed request"
                           ELSE IF u.failed THEN "BorrowedEventLoop::drop: unwrap on None"
                           ELSE ""
    /\ borrowed' = [borrowed EXCEPT ![t] = None]
    /\ borrowDepth' = [borrowDepth EXCEPT ![t] = 0]
    /\ UNCHANGED <<slot, state, accessVars, streamVars, acceptVars, histVars,
                   cxStatus, reqLive, reqFrees, timeoutArg, fired, hasIo>>

\* The scheduler asks the loop whether it has active I/O
HasActiveIo ==
    /\ Running
    /\ UNCHANGED <<homeVars, moreVars>>
    /\ hasIo' = <<has_active_io(loopData), loopData>>
    /\ UNCHANGED <<taskVars, timeoutVars, accessVars, streamVars, acceptVars,
                   histVars, connVars, tls, borrowed, borrowDepth>>

NextConnect ==
    \/ \E t \in Tasks :
        \/ \E timeout \in {"None", "Zero", "Pos"}, rs \in {0, EPIPE} :
              Connect(t, timeout, rs)
        \/ \E status \in {0, EPIPE, ECANCELED} : ConnectCb(t, status)
        \/ ConnectTimerCb(t)
        \/ ConnectResume(t)
        \/ TaskContinue(t)
    \/ HasActiveIo

SpecConnect == Init /\ [][NextConnect]_vars

(***************************************************************************)
(* Homing.  The handle of the stream lives on TheLoop, its home; a task    *)
(* may be on any loop when it calls uv_read or close_read.  The read       *)
(* timeout is left unset here (no set_read_timeout, no timer).             *)
(***************************************************************************)

\* fire_homing_missile for a task on loop cur and a handle of loop home:
\* on the home loop no deschedule; else the task is sent to the home
\* loop's queue and descheduled.  The missile records the origin.
fire_homing_missile(cur, home) == [deschedules |-> cur # home, origin |-> cur]

\* Drop of a HomingMissile that leaves the task where it is.
missile_drop_stay(org, home) == [deschedules |-> FALSE, to |-> home]

\* Drop of a HomingMissile: a no-op on the home loop, else the task is
\* sent back to the origin loop
missile_drop(org, home) == [deschedules |-> org # home, to |-> org]

\* A reawakened task runs on the loop of whoever reawakened it.
resume_on_waker(parkedOn, waker) == waker

\* The loop a task parked by block() or in Access::grant resumes on: the
\* loop it was parked on
resume_on(parkedOn, waker) == parkedOn

\* The end of a step of uv_read that task t runs on loop `here`.  The
\* missile (held by the guard) is live until the call has its result; then
\* it is dropped, which may deschedule the task for its way back.
ScopeEnd(t, org, here) ==
    /\ onLoop' = [onLoop EXCEPT ![t] = here]
    /\ missile' = [missile EXCEPT ![t] = pc'[t] # "done"]
    /\ travel' = [travel EXCEPT ![t] =
                    IF pc'[t] = "done" /\ missile_drop(org, TheLoop).deschedules
                    THEN "back" ELSE "no"]

\* Tcp::uv_read once fire_homing_missile has returned
HomeReadBody(t, rs) ==
    /\ LET e == grantEnter(state[t])
           a == AccessGrant(held, queue, t)
       IN IF e.err
          THEN /\ pc' = [pc EXCEPT ![t] = "done"]
               /\ ret' = [ret EXCEPT ![t] = <<ECANCELED>>]
               /\ UNCHANGED <<loopData, cnt, slot, wakes, failed, state, held, queue,
                              streamVars>>
          ELSE IF a.parks
          THEN /\ pc' = [pc EXCEPT ![t] = "grantWait"]
               /\ ret' = [ret EXCEPT ![t] = <<>>]
               /\ state' = [state EXCEPT ![t] = e.state]
               /\ queue' = a.queue
               /\ held' = a.held
               /\ wakes' = [wakes EXCEPT ![t] = 0]
               /\ UNCHANGED <<loopData, cnt, slot, failed, streamVars>>
          ELSE ApplyRead(t, uv_read_acquired(e.state, a.held, a.queue, rs))
    /\ UNCHANGED <<timerArmed, closed, acceptVars, histVars, connVars, loopVars, moreVars>>

\* Tcp::uv_read by a task on any loop, up to its first suspension point
HomeUvRead(t, rs) ==
    /\ Running
    /\ pc[t] = "idle"
    /\ travel[t] = "no"
    /\ loopData < MaxBlockers
    /\ LET f == fire_homing_missile(onLoop[t], TheLoop) IN
        /\ origin' = [origin EXCEPT ![t] = f.origin]
        /\ IF f.deschedules
           THEN /\ travel' = [travel EXCEPT ![t] = "homeRead"]
                /\ UNCHANGED <<taskVars, timeoutVars, accessVars, streamVars,
                               acceptVars, histVars, connVars, loopVars, moreVars, onLoop,
                               missile>>
           ELSE HomeReadBody(t, rs) /\ ScopeEnd(t, f.origin, onLoop[t])
    /\ UNCHANGED <<taken, wokenOn>>

\* The home loop's queue callback reschedules the task, which goes on in
\* uv_read on the home loop
HomeArriveRead(t, rs) ==
    /\ Running
    /\ travel[t] = "homeRead"
    /\ loopData < MaxBlockers
    /\ HomeReadBody(t, rs)
    /\ ScopeEnd(t, origin[t], TheLoop)
    /\ UNCHANGED <<origin, taken, wokenOn>>

\* The task parked in Access::grant resumes and goes on in uv_read
HomeGrantResume(t, rs) ==
    /\ Running
    /\ pc[t] = "grantWait"
    /\ wakes[t] > 0
    /\ loopData < MaxBlockers
    /\ ApplyRead(t, uv_read_acquired(state[t], held, queue, rs))
    /\ ScopeEnd(t, origin[t], resume_on(onLoop[t], wokenOn[t]))
    /\ wokenOn' = [wokenOn EXCEPT ![t] = TheLoop]
    /\ UNCHANGED <<timerArmed, closed, acceptVars, histVars, connVars, loopVars, moreVars,
                   origin, taken>>

\* The task parked in Stream::read resumes; uv_read returns
HomeReadResume(t) ==
    /\ Running
    /\ pc[t] = "readWait"
    /\ wakes[t] > 0
    /\ ReadResumeBody(t)
    /\ ScopeEnd(t, origin[t], resume_on(onLoop[t], wokenOn[t]))
    /\ wokenOn' = [wokenOn EXCEPT ![t] = TheLoop]
    /\ UNCHANGED <<connVars, loopVars, moreVars, origin, taken>>

\* Tcp::close_read on the home loop, inside the missile's scope: the Access
\* is flagged closed and the read in flight is cancelled with EOF; the
\* task taken from the ReadContext is kept in `task`
HomeCloseBody(t) ==
    /\ closed' = TRUE
    /\ LET c == cancel_read(data, EOF) IN
        /\ reading' = FALSE
        /\ data' = c.data
        /\ slot' = c.slot
        /\ rcxResult' = c.rcxResult
        /\ taken' = [taken EXCEPT ![t] = c.task]

\* Tcp::close_read once the missile is dropped and the task runs again, on
\* loop `here`: task.map(|t| t.reawaken()); Ok(())
HomeCloseEnd(t, task, here) ==
    /\ wakes' = Reawaken(wakes, task)
    /\ wokenOn' = IF task = None THEN wokenOn ELSE [wokenOn EXCEPT ![task] = here]
    /\ pc' = [pc EXCEPT ![t] = "done"]
    /\ ret' = [ret EXCEPT ![t] = <<0>>]

\* close_read on the home loop up to the drop of the missile, which sends
\* the task back or, with nowhere to go, lets it finish the call
HomeCloseScope(t, org) ==
    /\ HomeCloseBody(t)
    /\ IF missile_drop(org, TheLoop).deschedules
       THEN /\ travel' = [travel EXCEPT ![t] = "back"]
            /\ onLoop' = [onLoop EXCEPT ![t] = TheLoop]
            /\ UNCHANGED <<wakes, wokenOn, pc, ret>>
       ELSE /\ travel' = [travel EXCEPT ![t] = "no"]
            /\ onLoop' = [onLoop EXCEPT ![t] = missile_drop(org, TheLoop).to]
            /\ HomeCloseEnd(t, taken'[t], missile_drop(org, TheLoop).to)
    /\ UNCHANGED <<loopData, cnt, failed, timeoutVars, held, queue, acceptVars,
                   histVars, connVars, loopVars, moreVars, missile>>

\* Tcp::close_read by a task on any loop, up to its first suspension point
HomeCloseRead(t) ==
    /\ Running
    /\ pc[t] = "idle"
    /\ travel[t] = "no"
    /\ LET f == fire_homing_missile(onLoop[t], TheLoop) IN
        /\ origin' = [origin EXCEPT ![t] = f.origin]
        /\ IF f.deschedules
           THEN /\ travel' = [travel EXCEPT ![t] = "homeClose"]
                /\ UNCHANGED <<taskVars, timeoutVars, accessVars, streamVars,
                               acceptVars, histVars, connVars, loopVars, moreVars, onLoop,
                               missile, taken, wokenOn>>
           ELSE HomeCloseScope(t, f.origin)

\* The home loop's queue callback reschedules the task, which goes on in
\* close_read on the home loop
HomeArriveClose(t) ==
    /\ Running
    /\ travel[t] = "homeClose"
    /\ HomeCloseScope(t, origin[t])
    /\ UNCHANGED origin

\* The origin loop's queue callback reschedules a task that its dropped
\* missile sent back; a close_read then finishes on the origin loop
HomeBack(t) ==
    /\ Running
    /\ travel[t] = "back"
    /\ travel' = [travel EXCEPT ![t] = "no"]
    /\ onLoop' = [onLoop EXCEPT ![t] = missile_drop(origin[t], TheLoop).to]
    /\ IF pc[t] = "idle"
       THEN /\ HomeCloseEnd(t, taken[t], missile_drop(origin[t], TheLoop).to)
            /\ taken' = [taken EXCEPT ![t] = None]
       ELSE UNCHANGED <<wakes, wokenOn, pc, ret, taken>>
    /\ UNCHANGED <<loopData, cnt, slot, failed, timeoutVars, accessVars, streamVars,
                   acceptVars, histVars, connVars, loopVars, moreVars, missile, origin>>

\* The scheduler of another loop takes over an idle task
Migrate(t, l) ==
    /\ Running
    /\ pc[t] = "idle"
    /\ travel[t] = "no"
    /\ l # onLoop[t]
    /\ onLoop' = [onLoop EXCEPT ![t] = l]
    /\ UNCHANGED <<taskVars, timeoutVars, accessVars, streamVars, acceptVars,
                   histVars, connVars, loopVars, moreVars, missile, origin, travel, taken,
                   wokenOn>>

\* The task has its result, is back where it came from, and goes on
HomeTaskContinue(t) ==
    /\ travel[t] = "no"
    /\ TaskContinue(t)

NextHome ==
    \/ \E t \in Tasks :
        \/ \E rs \in {0, EPIPE} : HomeUvRead(t, rs)
        \/ \E rs \in {0, EPIPE} : HomeArriveRead(t, rs)
        \/ \E rs \in {0, EPIPE} : HomeGrantResume(t, rs)
        \/ HomeReadResume(t)
        \/ HomeCloseRead(t)
        \/ HomeArriveClose(t)
        \/ HomeBack(t)
        \/ \E l \in Loops : Migrate(t, l)
        \/ HomeTaskContinue(t)
    \/ \E nread \in {1, EOF} : ReadCb(nread)

SpecHome == Init /\ [][NextHome]_vars

(***************************************************************************)
(* queue.rs: the queue pool.  Each loop owns one lock-protected queue and  *)
(* one async handle.  A producer, on any thread, pushes a message under    *)
(* the lock and then fires the async handle; the reactor coalesces fires   *)
(* into its pending flag and runs the loop-side callback on the loop's     *)
(* thread, which pops messages until it finds the queue empty.             *)
(***************************************************************************)

\* Queue::push, first half: the message is pushed under the lock
queue_push(q, t, target) == Append(q, <<t, target>>)

\* uv_async_send: the fire is recorded in the pending flag; fires that find
\* the flag set are coalesced into it
async_send(pend) == TRUE

\* The loop-side callback that goes on while it has popped nothing yet only.
async_cb_once(q, popped) == q # <<>> /\ popped = 0

\* The loop-side callback goes on popping while the queue holds a message
async_cb_continues(q, popped) == q # <<>>

\* The callback reawakens a popped task whose target identity is the local loop
async_cb_wakes(msg, l) == msg[2] = l

\* A task on its way to loop l pushes itself on l's queue (homing, 4.3)
QPush(t, l) ==
    /\ Running
    /\ qpc[t] = "idle"
    /\ wq' = [wq EXCEPT ![l] = queue_push(@, t, l)]
    /\ qpc' = [qpc EXCEPT ![t] = "pushed"]
    /\ qTarget' = [qTarget EXCEPT ![t] = l]
    /\ qWakes' = [qWakes EXCEPT ![t] = 0]
    /\ qWokenOn' = [qWokenOn EXCEPT ![t] = None]
    /\ UNCHANGED <<baseVars, lifeVars, asyncPend, cbActive, cbPopped>>

\* Queue::push, second half: the async handle of the target loop is fired
QSend(t) ==
    /\ Running
    /\ qpc[t] = "pushed"
    /\ asyncPend' = [asyncPend EXCEPT ![qTarget[t]] = async_send(@)]
    /\ qpc' = [qpc EXCEPT ![t] = "sent"]
    /\ UNCHANGED <<baseVars, lifeVars, wq, cbActive, cbPopped, qTarget, qWakes, qWokenOn>>

\* The reactor of loop l delivers the pending fires as one callback
QCbStart(l) ==
    /\ Running
    /\ asyncPend[l]
    /\ ~cbActive[l]
    /\ asyncPend' = [asyncPend EXCEPT ![l] = FALSE]
    /\ cbActive' = [cbActive EXCEPT ![l] = TRUE]
    /\ cbPopped' = [cbPopped EXCEPT ![l] = 0]
    /\ UNCHANGED <<baseVars, lifeVars, wq, qpc, qTarget, qWakes, qWokenOn>>

\* The callback pops one message under the lock and reawakens its task
QCbPop(l) ==
    /\ Running
    /\ cbActive[l]
    /\ async_cb_continues(wq[l], cbPopped[l])
    /\ LET msg == Head(wq[l]) IN
        /\ wq' = [wq EXCEPT ![l] = Tail(@)]
        /\ cbPopped' = [cbPopped EXCEPT ![l] = IF @ < NTasks THEN @ + 1 ELSE @]
        /\ IF async_cb_wakes(msg, l)
           THEN /\ qWakes' = [qWakes EXCEPT ![msg[1]] = @ + 1]
                /\ qWokenOn' = [qWokenOn EXCEPT ![msg[1]] = l]
           ELSE UNCHANGED <<qWakes, qWokenOn>>
    /\ UNCHANGED <<baseVars, lifeVars, asyncPend, cbActive, qpc, qTarget>>

\* The callback finds nothing more to pop and returns
QCbEnd(l) ==
    /\ Running
    /\ cbActive[l]
    /\ ~async_cb_continues(wq[l], cbPopped[l])
    /\ cbActive' = [cbActive EXCEPT ![l] = FALSE]
    /\ UNCHANGED <<baseVars, lifeVars, wq, asyncPend, cbPopped, qpc, qTarget, qWakes, qWokenOn>>

\* The reawakened task has fired the async handle, runs on the target loop
\* and is free to travel again
QResume(t) ==
    /\ Running
    /\ qpc[t] = "sent"
    /\ qWakes[t] > 0
    /\ qpc' = [qpc EXCEPT ![t] = "idle"]
    /\ UNCHANGED <<baseVars, lifeVars, wq, asyncPend, cbActive, cbPopped, qTarget, qWakes, qWokenOn>>

NextQueue ==
    \/ \E t \in Tasks, l \in Loops : QPush(t, l)
    \/ \E t \in Tasks : QSend(t)
    \/ \E l \in Loops : QCbStart(l)
    \/ \E l \in Loops : QCbPop(l)
    \/ \E l \in Loops : QCbEnd(l)
    \/ \E t \in Tasks : QResume(t)

SpecQueue == Init /\ [][NextQueue]_vars

(***************************************************************************)
(* Lifetimes: the facade objects and their reactor handles, and the        *)
(* EventLoop destructor.  One facade object exists at a time; a Tcp, Pipe  *)
(* or Udp may have clones, which share the handle through an Arc.          *)
(***************************************************************************)

\* Facade objects whose handle sits in an Arc shared by the clones
\* (tcp.rs:26-28, pipe.rs:26-28, udp.rs:25-27)
Shared == {"tcp", "pipe", "udp"}
Kinds == Shared \cup {"listener", "tty", "timer", "signal", "idle", "async",
                      "rtimer", "ctimer"}

\* The handle a new facade object starts with: the timer of an
\* AccessTimeout is created by the first set_timeout (timeout.rs:134-138)
new_handle(k) == IF k = "rtimer" THEN "none" ELSE "open"

\* Clone without a count of its own.
clone_uncounted(n) == n

\* Clone for Tcp, Pipe, Udp: data.clone() of the Arc
clone(n) == n + 1

\* Drop of one Arc: the count goes down and the last one drops the data
arc_drop(n) == [strong |-> n - 1, dropsData |-> n = 1]

\* uv_close without a callback and the handle freed at once.
close_then_free(st) == [st |-> "freed", closeReqs |-> 1, frees |-> 1]

\* Handle::close_and_free: uv_close with the callback `done`
close_and_free(st) == [st |-> "closing", closeReqs |-> 1, frees |-> 0]

\* Handle::close(cb) with a callback of the facade
close(st) == [st |-> "closing", closeReqs |-> 1, frees |-> 0]

\* What the destructor of a facade object does to a handle in state st:
\* Drop for TcpData, PipeData, udp::Data, TcpListener, PipeListener, Tty,
\* Signal, Idle and AccessTimeout, and the end of ConnectCtx::connect, call
\* close_and_free (AccessTimeout only with a timer); Drop for Timer calls
\* close(Some(close_cb)); Drop for Async closes nothing itself.
drop_handle(k, st) ==
    IF k = "async" \/ st = "none" THEN [st |-> st, closeReqs |-> 0, frees |-> 0]
    ELSE IF k = "timer" THEN close(st)
    ELSE close_and_free(st)

\* The frees a close callback does: `done`, timer.rs close_cb and async.rs
\* close_cb all free the handle
close_cb(k) == 1

\* A facade object is created on the loop
Create(k) ==
    /\ Running
    /\ elPc = "alive"
    /\ nClones = 0
    /\ hSt \in {"none", "freed"}
    /\ objKind' = k
    /\ nClones' = 1
    /\ strong' = IF k \in Shared THEN 1 ELSE 0
    /\ inOps' = 0
    /\ everCloned' = FALSE
    /\ hSt' = new_handle(k)
    /\ closeReqs' = 0
    /\ closeCbs' = 0
    /\ frees' = 0
    /\ aFlag' = FALSE
    /\ aPend' = FALSE
    /\ aCb' = "idle"
    /\ aShould' = FALSE
    /\ aAfterFinal' = FALSE
    /\ aSendClosed' = FALSE
    /\ UNCHANGED <<baseVars, queueVars, elVars>>

\* AccessTimeout::set_timeout(Some(..)): the timer is created when there is none
SetTimeoutLazy ==
    /\ Running
    /\ elPc = "alive"
    /\ objKind = "rtimer"
    /\ nClones = 1
    /\ hSt' = IF hSt = "none" THEN "open" ELSE hSt
    /\ UNCHANGED <<baseVars, queueVars, objKind, nClones, strong, inOps, everCloned, closeReqs,
                   closeCbs, frees, asyncVars, elVars>>

\* Clone for Tcp / Pipe / Udp, through a clone that is not in an operation
CloneObj ==
    /\ Running
    /\ elPc = "alive"
    /\ objKind \in Shared
    /\ nClones > inOps
    /\ nClones < MaxClones
    /\ nClones' = nClones + 1
    /\ strong' = clone(strong)
    /\ everCloned' = TRUE
    /\ UNCHANGED <<baseVars, queueVars, objKind, inOps, hSt, closeReqs, closeCbs,
                   frees, asyncVars, elVars>>

\* A task starts an operation through a clone and parks in it
OpStart ==
    /\ Running
    /\ elPc = "alive"
    /\ objKind \in Shared
    /\ nClones > inOps
    /\ inOps' = inOps + 1
    /\ UNCHANGED <<baseVars, queueVars, objKind, nClones, strong, everCloned, hSt, closeReqs,
                   closeCbs, frees, asyncVars, elVars>>

\* The operation returns
OpEnd ==
    /\ Running
    /\ elPc = "alive"
    /\ inOps > 0
    /\ inOps' = inOps - 1
    /\ UNCHANGED <<baseVars, queueVars, objKind, nClones, strong, everCloned, hSt, closeReqs,
                   closeCbs, frees, asyncVars, elVars>>

\* A facade object that is not in an operation is dropped.  Of a shared
\* handle the Arc is dropped and only the last drop runs the destructor of
\* the data.  Drop for Async sets the exit flag and sends, under the lock.
DropObj ==
    /\ Running
    /\ elPc \in {"alive", "run"}
    /\ nClones > inOps
    /\ nClones' = nClones - 1
    /\ LET a == arc_drop(strong)
           runs == IF objKind \in Shared THEN a.dropsData ELSE TRUE
           d == drop_handle(objKind, hSt)
       IN /\ strong' = IF objKind \in Shared THEN a.strong ELSE strong
          /\ hSt' = IF runs THEN d.st ELSE hSt
          /\ closeReqs' = IF runs THEN closeReqs + d.closeReqs ELSE closeReqs
          /\ frees' = IF runs THEN frees + d.frees ELSE frees
    /\ IF objKind = "async"
       THEN /\ aFlag' = TRUE
            /\ aPend' = async_send(aPend)
            /\ aSendClosed' = (aSendClosed \/ hSt # "open")
       ELSE UNCHANGED <<aFlag, aPend, aSendClosed>>
    /\ UNCHANGED <<baseVars, queueVars, objKind, inOps, everCloned, closeCbs, aCb, aShould,
                   aAfterFinal, elVars>>

\* The reactor runs the close callback of the handle
CloseCb ==
    /\ Running
    /\ elPc \in {"alive", "run"}
    /\ hSt = "closing"
    /\ closeCbs' = closeCbs + 1
    /\ frees' = frees + close_cb(objKind)
    /\ hSt' = "freed"
    /\ UNCHANGED <<baseVars, queueVars, objKind, nClones, strong, inOps, everCloned, closeReqs,
                   asyncVars, elVars>>

(***************************************************************************)
(* async.rs: Async.  fire() and the destructor run on any thread, async_cb *)
(* on the loop's thread; the steps of async_cb interleave with them.       *)
(***************************************************************************)

\* should_exit taken from the flag after callback.call().
should_exit_late(before, after) == after

\* async_cb: should_exit is read under the lock before callback.call()
should_exit(before, after) == before

\* RemoteCallback::fire: handle.send()
AFire ==
    /\ Running
    /\ objKind = "async"
    /\ nClones = 1
    /\ aPend' = async_send(aPend)
    /\ aSendClosed' = (aSendClosed \/ hSt # "open")
    /\ UNCHANGED <<baseVars, queueVars, objVars, aFlag, aCb, aShould, aAfterFinal,
                   elVars>>

\* The reactor delivers the sends it has coalesced: async_cb is entered
AsyncCbEnter ==
    /\ Running
    /\ elPc \in {"alive", "run"}
    /\ objKind = "async"
    /\ hSt = "open"
    /\ aPend
    /\ aCb = "idle"
    /\ aPend' = FALSE
    /\ aCb' = "entered"
    /\ UNCHANGED <<baseVars, queueVars, objVars, aFlag, aShould, aAfterFinal,
                   aSendClosed, elVars>>

\* let should_exit = *data.exit_flag.lock()
AsyncCbLock ==
    /\ Running
    /\ aCb = "entered"
    /\ aShould' = aFlag
    /\ aCb' = "locked"
    /\ UNCHANGED <<baseVars, queueVars, objVars, aFlag, aPend, aAfterFinal,
                   aSendClosed, elVars>>

\* data.callback.call()
AsyncCbCall ==
    /\ Running
    /\ aCb = "locked"
    /\ aAfterFinal' = (aAfterFinal \/ aFlag)
    /\ aCb' = "called"
    /\ UNCHANGED <<baseVars, queueVars, objVars, aFlag, aPend, aShould, aSendClosed,
                   elVars>>

\* if should_exit { handle.close(close_cb) }
AsyncCbExit ==
    /\ Running
    /\ aCb = "called"
    /\ aCb' = "idle"
    /\ IF should_exit(aShould, aFlag)
       THEN LET c == close(hSt) IN
            /\ hSt' = c.st
            /\ closeReqs' = closeReqs + c.closeReqs
       ELSE UNCHANGED <<hSt, closeReqs>>
    /\ UNCHANGED <<baseVars, queueVars, objKind, nClones, strong, inOps, everCloned,
                   closeCbs, frees, aFlag, aPend, aShould, aAfterFinal, aSendClosed, elVars>>

(***************************************************************************)
(* event_loop.rs: Drop for EventLoop                                       *)
(***************************************************************************)

\* uv_loop_close fails while a handle of the loop is not closed
EBUSY == -16

\* Loop::close: uv_loop_close, and on success the loop is deallocated
loop_close(rs) == IF rs < 0 THEN <<>> ELSE <<"closeLoop", "freeLoop">>

\* let mut handle = self.pool.get_ref().handle(); drop(self.pool.take()):
\* the pool closes its wakeup handle and leaves the memory to the caller
ElDropPool ==
    /\ Running
    /\ elPc = "alive"
    /\ aCb = "idle"
    /\ elPc' = "run"
    /\ poolSt' = "closing"
    /\ elLog' = Append(elLog, "dropPool")
    /\ UNCHANGED <<baseVars, queueVars, objVars, asyncVars, poolFrees>>

\* the final run() fires the close callback of the wakeup handle
PoolCloseCb ==
    /\ Running
    /\ elPc = "run"
    /\ poolSt = "closing"
    /\ poolSt' = "closed"
    /\ UNCHANGED <<baseVars, queueVars, objVars, asyncVars, poolFrees, elPc, elLog>>

\* self.run() returns: no handle is closing and no Async is left open
ElRunReturn ==
    /\ Running
    /\ elPc = "run"
    /\ poolSt = "closed"
    /\ hSt # "closing"
    /\ ~(objKind = "async" /\ hSt = "open")
    /\ aCb = "idle"
    /\ elPc' = "close"
    /\ elLog' = Append(elLog, "run")
    /\ UNCHANGED <<baseVars, queueVars, objVars, asyncVars, poolSt, poolFrees>>

\* self.uv_loop.close().unwrap()
ElLoopClose ==
    /\ Running
    /\ elPc = "close"
    /\ LET rs == IF hSt = "open" THEN EBUSY ELSE 0 IN
        /\ failed' = IF rs < 0 THEN "uv_loop.close().unwrap()" ELSE failed
        /\ elLog' = elLog \o loop_close(rs)
        /\ elPc' = IF rs < 0 THEN elPc ELSE "freeHandle"
    /\ UNCHANGED <<loopData, pc, cnt, slot, wakes, ret, timeoutVars, accessVars,
                   streamVars, acceptVars, histVars, connVars, loopVars, homeVars,
                   timerVars, auxVars, queueVars, objVars, asyncVars, poolSt, poolFrees>>

\* handle.free()
ElFreeHandle ==
    /\ Running
    /\ elPc = "freeHandle"
    /\ poolFrees' = poolFrees + 1
    /\ elLog' = Append(elLog, "freeHandle")
    /\ elPc' = "freeLoop"
    /\ UNCHANGED <<baseVars, queueVars, objVars, asyncVars, poolSt>>

\* self.uv_loop.free()
ElFreeLoop ==
    /\ Running
    /\ elPc = "freeLoop"
    /\ elLog' = Append(elLog, "freeLoop")
    /\ elPc' = "dropped"
    /\ UNCHANGED <<baseVars, queueVars, objVars, asyncVars, poolSt, poolFrees>>

NextLife ==
    \/ \E k \in Kinds : Create(k)
    \/ SetTimeoutLazy
    \/ CloneObj
    \/ OpStart
    \/ OpEnd
    \/ DropObj
    \/ CloseCb
    \/ AFire
    \/ AsyncCbEnter
    \/ AsyncCbLock
    \/ AsyncCbCall
    \/ AsyncCbExit
    \/ ElDropPool
    \/ PoolCloseCb
    \/ ElRunReturn
    \/ ElLoopClose
    \/ ElFreeHandle
    \/ ElFreeLoop

SpecLife == Init /\ [][NextLife]_vars

(***************************************************************************)
(* timer.rs and signal.rs: one Timer and one Signal, the calls their owner *)
(* makes on them, and the reactor's timer_cb and signal_cb.  cb.call() in  *)
(* timer_cb may switch to another task (the comment in timer_cb), so calls *)
(* on the Timer can run between the start and the return of cb.call().     *)
(***************************************************************************)

\* The dur arguments: negative, zero and positive milliseconds.
Durs == {-1, 0, 1}

Act(kind, who, id) == [kind |-> kind, who |-> who, id |-> id]
\* Option::None of Data.action
NoAction == Act("None", 0, 0)
\* the action holds a user callback
HasCb(a) == a.kind \in {"CallOnce", "CallMany"}

\* sleep with the negative duration passed on to the reactor
sleep_ms_raw(dur) == dur
\* sleep / oneshot: let mut ms = dur.num_milliseconds(); if ms <= 0 { ms = 0; }
sleep_ms(dur) == IF dur <= 0 THEN 0 ELSE dur

\* periodic with the clamp of sleep and oneshot
periodic_ms_zero(dur) == IF dur <= 0 THEN 0 ELSE dur
\* periodic: if ms <= 0 { ms = 1; }
periodic_ms(dur) == IF dur <= 0 THEN 1 ELSE dur

\* AccessTimeout::set_timeout: Some(dur) if dur.num_milliseconds() < 0 => 0,
\* Some(dur) => dur.num_milliseconds() as u64
timeout_ms(dur) == IF dur < 0 THEN 0 ELSE dur

\* handle.start(timeout, repeat, timer_cb): with a repeat of 0 the reactor
\* timer fires once, else it fires again every `repeat` ms
timer_start(timeout, repeat) == IF repeat = 0 THEN "once" ELSE "repeat"

\* `ms as u64`: a negative ms becomes a timeout of more than 2^63 ms, which
\* no run reaches; the reactor timer fires for the others.
Elapses(ms) == ms >= 0

\* the first block of sleep with the action dropped before the missile
sleep_prev_inside(prev) ==
    IF HasCb(prev) THEN <<"fire", "stop", "take", "dropcb", "unfire">>
    ELSE <<"fire", "stop", "take", "unfire">>
\* the first block of sleep: let (m, data, _) = self.data(); handle.stop();
\* match data.action.take() { Some(a) => { drop(m); drop(a); } None => {} }
sleep_prev(prev) ==
    IF HasCb(prev) THEN <<"fire", "stop", "take", "unfire", "dropcb">>
    ELSE <<"fire", "stop", "take", "unfire">>

\* let _prev = { let _m = self.fire_homing_missile(); ...; mem::replace(..) };
\* the block's _m is dropped at the end of the block, _prev at the end of
\* the function.
replace_prev(hasPrev) ==
    IF hasPrev THEN <<"fire", "stop", "replace", "unfire", "dropcb">>
    ELSE <<"fire", "stop", "replace", "unfire">>

\* the destructor of the callback of action a runs, in function `by`
DropCb(drops, a) == IF HasCb(a) THEN [drops EXCEPT ![a.who] = @ + 1] ELSE drops
DropBy(bys, a, by) == IF HasCb(a) THEN [bys EXCEPT ![a.who] = by] ELSE bys

\* timer_cb putting the periodic callback back whatever the id
restore_always(id, did) == TRUE
\* timer_cb: if data.id == id { data.action = Some(Action::CallMany(cb, id)); }
restore(id, did) == did = id

\* Drop for Timer leaving the id as it is
drop_id_keep(id) == id
\* Drop for Timer: data.id += 1
drop_id(id) == id + 1

\* no task is parked in sleep: the Timer's owner is running
OwnerRuns == \A u \in Tasks : pc[u] # "sleepWait"

\* Timer::new
TmNew ==
    /\ Running
    /\ tmSt = "none"
    /\ tmSt' = "live"
    /\ tmAction' = NoAction
    /\ tmId' = 0
    /\ UNCHANGED <<taskVars, quietVars, tmArmed, tmMs, tmDur, tmCall, tmCur, tmStale,
                   sgVars, cbVars>>

\* Timer::sleep(dur), up to the deschedule in block()
TmSleep(t, dur) ==
    /\ Running
    /\ tmSt = "live"
    /\ OwnerRuns
    /\ pc[t] = "idle"
    /\ wakes[t] = 0
    /\ tmId < MaxOps
    /\ cbDrops' = DropCb(cbDrops, tmAction)
    /\ cbBy' = DropBy(cbBy, tmAction, "sleep")
    /\ tmId' = tmId + 1
    /\ tmAction' = Act("WakeTask", t, 0)
    /\ tmCur' = Act("WakeTask", t, 0)
    /\ tmArmed' = timer_start(sleep_ms(dur), 0)
    /\ tmMs' = sleep_ms(dur)
    /\ tmDur' = dur
    /\ LET b == BlockEnter(loopData) IN
        /\ cnt' = [cnt EXCEPT ![t] = b.cnt]
        /\ loopData' = b.loopData
    /\ pc' = [pc EXCEPT ![t] = "sleepWait"]
    /\ opName' = "sleep"
    /\ opLog' = sleep_prev(tmAction) \o <<"fire", "block">>
    /\ UNCHANGED <<slot, wakes, ret, failed, quietVars, tmSt, tmCall, tmStale, sgVars,
                   nextCb, tmCbs>>

\* Timer::sleep after block() has returned: the second missile is dropped
TmSleepResume(t) ==
    /\ Running
    /\ pc[t] = "sleepWait"
    /\ wakes[t] > 0
    /\ wakes' = [wakes EXCEPT ![t] = @ - 1]
    /\ loopData' = BlockExit(loopData, cnt[t])
    /\ pc' = [pc EXCEPT ![t] = "idle"]
    /\ opLog' = Append(opLog, "unfire")
    /\ UNCHANGED <<cnt, slot, ret, failed, quietVars, tmVars, sgVars, nextCb, tmCbs,
                   cbDrops, cbBy, opName>>

\* Timer::oneshot(dur, cb)
TmOneshot(dur) ==
    /\ Running
    /\ tmSt = "live"
    /\ OwnerRuns
    /\ tmId < MaxOps
    /\ nextCb < MaxOps
    /\ nextCb' = nextCb + 1
    /\ tmCbs' = tmCbs \cup {nextCb + 1}
    /\ tmId' = tmId + 1
    /\ tmArmed' = timer_start(sleep_ms(dur), 0)
    /\ tmMs' = sleep_ms(dur)
    /\ tmDur' = dur
    /\ tmAction' = Act("CallOnce", nextCb + 1, 0)
    /\ tmCur' = Act("CallOnce", nextCb + 1, 0)
    /\ cbDrops' = DropCb(cbDrops, tmAction)
    /\ cbBy' = DropBy(cbBy, tmAction, "oneshot")
    /\ opName' = "oneshot"
    /\ opLog' = replace_prev(HasCb(tmAction))
    /\ UNCHANGED <<taskVars, quietVars, tmSt, tmCall, tmStale, sgVars>>

\* Timer::periodic(dur, cb)
TmPeriodic(dur) ==
    /\ Running
    /\ tmSt = "live"
    /\ OwnerRuns
    /\ tmId < MaxOps
    /\ nextCb < MaxOps
    /\ nextCb' = nextCb + 1
    /\ tmCbs' = tmCbs \cup {nextCb + 1}
    /\ tmId' = tmId + 1
    /\ tmArmed' = timer_start(periodic_ms(dur), periodic_ms(dur))
    /\ tmMs' = periodic_ms(dur)
    /\ tmDur' = dur
    /\ tmAction' = Act("CallMany", nextCb + 1, tmId + 1)
    /\ tmCur' = Act("CallMany", nextCb + 1, tmId + 1)
    /\ cbDrops' = DropCb(cbDrops, tmAction)
    /\ cbBy' = DropBy(cbBy, tmAction, "periodic")
    /\ opName' = "periodic"
    /\ opLog' = replace_prev(HasCb(tmAction))
    /\ UNCHANGED <<taskVars, quietVars, tmSt, tmCall, tmStale, sgVars>>

\* timer_cb up to the return of task.reawaken() or the start of cb.call():
\* match data.action.take().unwrap() { .. }
TimerCb ==
    /\ Running
    /\ tmSt = "live"
    /\ tmArmed # "off"
    /\ Elapses(tmMs)
    /\ tmCall = NoAction
    /\ tmArmed' = IF tmArmed = "once" THEN "off" ELSE tmArmed
    /\ tmAction' = NoAction
    /\ tmStale' = (tmStale \/ tmAction # tmCur)
    /\ failed' = IF tmAction = NoAction THEN "timer_cb: unwrap on None" ELSE ""
    /\ wakes' = IF tmAction.kind = "WakeTask" THEN Reawaken(wakes, tmAction.who)
                ELSE wakes
    /\ tmCall' = IF HasCb(tmAction) THEN tmAction ELSE NoAction
    /\ UNCHANGED <<loopData, pc, cnt, slot, ret, quietVars, tmSt, tmId, tmMs, tmDur,
                   tmCur, sgVars, cbVars>>

\* timer_cb from the return of cb.call(): a CallOnce callback is dropped; a
\* CallMany callback is put back if no call has bumped the id, and dropped
\* otherwise.  The assignment to data.action drops the value it overwrites.
TimerCbReturn ==
    /\ Running
    /\ tmCall # NoAction
    /\ tmCall' = NoAction
    /\ opName' = "timer_cb"
    /\ IF tmCall.kind = "CallMany" /\ restore(tmCall.id, tmId)
       THEN /\ tmAction' = tmCall
            /\ cbDrops' = DropCb(cbDrops, tmAction)
            /\ cbBy' = DropBy(cbBy, tmAction, "timer_cb")
            /\ opLog' = <<"call", "restore">>
       ELSE /\ cbDrops' = DropCb(cbDrops, tmCall)
            /\ cbBy' = DropBy(cbBy, tmCall, "timer_cb")
            /\ opLog' = IF tmCall.kind = "CallMany" THEN <<"call", "stale", "dropcb">>
                        ELSE <<"call", "dropcb">>
            /\ UNCHANGED tmAction
    /\ UNCHANGED <<taskVars, quietVars, tmSt, tmId, tmArmed, tmMs, tmDur, tmCur, tmStale,
                   sgVars, nextCb, tmCbs>>

\* Drop for Timer: stop, bump the id, uv_close with close_cb, take the
\* action; the action is dropped at the end of drop, after the missile.
TmDrop ==
    /\ Running
    /\ tmSt = "live"
    /\ OwnerRuns
    /\ tmSt' = "closing"
    /\ tmArmed' = "off"
    /\ tmId' = drop_id(tmId)
    /\ tmAction' = NoAction
    /\ tmCur' = NoAction
    /\ cbDrops' = DropCb(cbDrops, tmAction)
    /\ cbBy' = DropBy(cbBy, tmAction, "drop")
    /\ opName' = "drop"
    /\ opLog' = replace_prev(HasCb(tmAction))
    /\ UNCHANGED <<taskVars, quietVars, tmMs, tmDur, tmCall, tmStale, sgVars, nextCb,
                   tmCbs>>

\* close_cb of Drop for Timer, run by the loop once timer_cb is off its
\* stack: assert!(data.action.is_none()); timer.free()
TmCloseCb ==
    /\ Running
    /\ tmSt = "closing"
    /\ tmCall = NoAction
    /\ tmSt' = "freed"
    /\ failed' = IF tmAction # NoAction THEN "close_cb: assert action.is_none()" ELSE ""
    /\ UNCHANGED <<loopData, pc, cnt, slot, wakes, ret, quietVars, tmAction, tmId,
                   tmArmed, tmMs, tmDur, tmCall, tmCur, tmStale, sgVars, cbVars>>

\* the signal numbers a Signal is started with (SIGINT, SIGTERM)
Signums == {2, 15}

\* Signal::new
SgNew(s) ==
    /\ Running
    /\ sgSt[s] = "none"
    /\ sgSt' = [sgSt EXCEPT ![s] = "live"]
    /\ sgCb' = [sgCb EXCEPT ![s] = None]
    /\ UNCHANGED <<taskVars, quietVars, tmVars, sgOn, sgNum, sgSig, sgHit, cbVars>>

\* Signal::start(signal, cb): rs is the result of uv_signal_start; on an
\* error try! returns with the callback slot untouched and cb is dropped at
\* the end of start, after the missile.
SgStart(s, num, rs) ==
    /\ Running
    /\ sgSt[s] = "live"
    /\ nextCb < MaxOps
    /\ nextCb' = nextCb + 1
    /\ opName' = "start"
    /\ IF rs < 0
       THEN /\ cbDrops' = [cbDrops EXCEPT ![nextCb + 1] = @ + 1]
            /\ cbBy' = [cbBy EXCEPT ![nextCb + 1] = "start"]
            /\ opLog' = <<"fire", "start", "unfire", "dropcb">>
            /\ UNCHANGED <<sgCb, sgOn, sgNum>>
       ELSE /\ sgOn' = [sgOn EXCEPT ![s] = TRUE]
            /\ sgNum' = [sgNum EXCEPT ![s] = num]
            /\ sgCb' = [sgCb EXCEPT ![s] = nextCb + 1]
            /\ cbDrops' = IF sgCb[s] = None THEN cbDrops
                          ELSE [cbDrops EXCEPT ![sgCb[s]] = @ + 1]
            /\ cbBy' = IF sgCb[s] = None THEN cbBy ELSE [cbBy EXCEPT ![sgCb[s]] = "start"]
            /\ opLog' = replace_prev(sgCb[s] # None)
    /\ UNCHANGED <<taskVars, quietVars, tmVars, sgSt, sgSig, sgHit, tmCbs>>

\* stop without self.handle.stop()
signal_stop_keep(on) == on
\* self.handle.stop(): the reactor handle is no longer started
signal_stop(on) == FALSE

\* Signal::stop()
SgStop(s, rs) ==
    /\ Running
    /\ sgSt[s] = "live"
    /\ opName' = "stop"
    /\ IF rs < 0
       THEN /\ opLog' = <<"fire", "stop", "unfire">>
            /\ UNCHANGED <<sgCb, sgOn, cbDrops, cbBy>>
       ELSE /\ sgOn' = [sgOn EXCEPT ![s] = signal_stop(@)]
            /\ sgCb' = [sgCb EXCEPT ![s] = None]
            /\ cbDrops' = IF sgCb[s] = None THEN cbDrops
                          ELSE [cbDrops EXCEPT ![sgCb[s]] = @ + 1]
            /\ cbBy' = IF sgCb[s] = None THEN cbBy ELSE [cbBy EXCEPT ![sgCb[s]] = "stop"]
            /\ opLog' = replace_prev(sgCb[s] # None)
    /\ UNCHANGED <<taskVars, quietVars, tmVars, sgSt, sgNum, sgSig, sgHit, nextCb, tmCbs>>

\* the Signals whose reactor handle is started on num
Subscribed(num) == {s \in Signals : sgSt[s] = "live" /\ sgOn[s] /\ sgNum[s] = num}

\* The process receives signal num: the reactor runs signal_cb on every
\* started handle of that number.
\* signal_cb: assert!(data.callback.is_some()); the callback is called in place
SignalCb(num) ==
    /\ Running
    /\ Subscribed(num) # {}
    /\ failed' = IF \E s \in Subscribed(num) : sgCb[s] = None
                 THEN "signal_cb: assert callback.is_some()" ELSE ""
    /\ sgSig' = num
    /\ sgHit' = {sgCb[s] : s \in Subscribed(num)} \ {None}
    /\ opName' = "signal_cb"
    /\ opLog' = <<"call">>
    /\ UNCHANGED <<loopData, pc, cnt, slot, wakes, ret, quietVars, tmVars, sgSt, sgCb,
                   sgOn, sgNum, nextCb, tmCbs, cbDrops, cbBy>>

\* Drop for Signal: stop and close_and_free under the missile; the Data box
\* and its callback are dropped at the end of drop.
SgDrop(s) ==
    /\ Running
    /\ sgSt[s] = "live"
    /\ sgSt' = [sgSt EXCEPT ![s] = "closed"]
    /\ sgOn' = [sgOn EXCEPT ![s] = FALSE]
    /\ sgCb' = [sgCb EXCEPT ![s] = None]
    /\ cbDrops' = IF sgCb[s] = None THEN cbDrops ELSE [cbDrops EXCEPT ![sgCb[s]] = @ + 1]
    /\ cbBy' = IF sgCb[s] = None THEN cbBy ELSE [cbBy EXCEPT ![sgCb[s]] = "drop"]
    /\ opName' = "drop"
    /\ opLog' = replace_prev(sgCb[s] # None)
    /\ UNCHANGED <<taskVars, quietVars, tmVars, sgNum, sgSig, sgHit, nextCb, tmCbs>>

\* AccessTimeout::set_timeout(Some(dur), ..), the timeout its timer is
\* started with: timer.start(ms, 0, timer_cb)
SetTimeoutMs(dur) ==
    /\ Running
    /\ atDur' = dur
    /\ atMs' = timeout_ms(dur)
    /\ UNCHANGED <<stillVars, failed, udpVars>>

NextTimer ==
    \/ TmNew
    \/ \E t \in Tasks, dur \in Durs : TmSleep(t, dur)
    \/ \E t \in Tasks : TmSleepResume(t)
    \/ \E dur \in Durs : TmOneshot(dur)
    \/ \E dur \in Durs : TmPeriodic(dur)
    \/ TimerCb
    \/ TimerCbReturn
    \/ TmDrop
    \/ TmCloseCb
    \/ SgNew(1)
    \/ \E rs \in {0, EPIPE} : SgStart(1, 2, rs)
    \/ \E rs \in {0, EPIPE} : SgStop(1, rs)
    \/ SignalCb(2)
    \/ SgDrop(1)
    \/ \E dur \in Durs : SetTimeoutMs(dur)

SpecTimer == Init /\ [][NextTimer]_vars

(***************************************************************************)
(* Udp::recv_from, its reactor callbacks and its read timeout (udp.rs)     *)
(***************************************************************************)

\* nread of a recv callback: an error, nothing to read, a datagram
Nreads == {EPIPE, 0, 1}

\* the data slot pointing to the UdpRecvCtx of the running recv_from
CxPtr == 1

\* recv_from: grant of the read access, recv_start, set_data(&mut cx) and
\* block; rs is the result of recv_start. A timed out access or a failed
\* recv_start return the error at once.
UdpRecvFrom(rs) ==
    /\ Running
    /\ uPc = "idle"
    /\ IF uTo = "timedout"
       THEN /\ uRet' = <<"Err", ECANCELED>>
            /\ UNCHANGED <<uPc, uBuf, uTask, uResult, uStarted, uData, uEmpty>>
       ELSE IF rs < 0
       THEN /\ uRet' = <<"Err", rs>>
            /\ UNCHANGED <<uPc, uBuf, uTask, uResult, uStarted, uData, uEmpty>>
       ELSE /\ uStarted' = TRUE
            /\ uData' = CxPtr
            /\ uBuf' = TRUE
            /\ uTask' = TRUE
            /\ uResult' = None
            /\ uEmpty' = 0
            /\ uPc' = "parked"
            /\ uRet' = <<>>
    /\ UNCHANGED <<stillVars, failed, atVars, uLent, uTo>>

\* alloc_cb: *buf = cx.buf.take().expect("recv alloc_cb called more than once")
UdpAllocCb ==
    /\ Running
    /\ uStarted
    /\ ~uLent
    /\ IF uBuf
       THEN /\ uBuf' = FALSE
            /\ uLent' = TRUE
            /\ UNCHANGED failed
       ELSE /\ failed' = "recv alloc_cb called more than once"
            /\ UNCHANGED <<uBuf, uLent>>
    /\ UNCHANGED <<stillVars, atVars, uPc, uTask, uResult, uStarted, uData, uRet, uEmpty,
                   uTo>>

\* recv_cb with nread == 0 and the buffer left with the reactor
recv_empty_keep(b) == b
\* recv_cb with nread == 0: cx.buf = Some(*buf)
recv_empty(b) == TRUE

\* recv_cb(handle, nread, buf, addr, flags)
UdpRecvCb(nread) ==
    /\ Running
    /\ uLent
    /\ uLent' = FALSE
    /\ IF nread = 0
       THEN /\ uEmpty < MaxEmpty
            /\ uEmpty' = uEmpty + 1
            /\ uBuf' = recv_empty(uBuf)
            /\ UNCHANGED <<uStarted, uResult, uTask, uPc>>
       ELSE /\ uStarted' = FALSE
            /\ uResult' = nread
            /\ uTask' = FALSE
            /\ uPc' = IF uTask THEN "woken" ELSE uPc
            /\ UNCHANGED <<uBuf, uEmpty>>
    /\ UNCHANGED <<stillVars, failed, atVars, uData, uRet, uTo>>

\* set_read_timeout(dur) on a clone of the Udp
UdpSetReadTimeout(dur) ==
    /\ Running
    /\ ~uLent
    /\ uTo' = IF dur = "None" THEN "none" ELSE "pending"
    /\ UNCHANGED <<stillVars, failed, atVars, uPc, uBuf, uTask, uResult, uStarted, uData,
                   uLent, uRet, uEmpty>>

\* The read timeout expires: cancel_read stops the receive, and if the data
\* slot is not null stores ECANCELED in the context it points to and takes
\* the task out, which is then woken. The slot of a handle that no
\* recv_from has run on was never written: the test reads whatever the
\* allocation held (wild).
UdpCancelRead ==
    /\ Running
    /\ uTo = "pending"
    /\ ~uLent
    /\ uTo' = "timedout"
    /\ uStarted' = FALSE
    /\ \E wild \in BOOLEAN :
          /\ wild => uData = Uninit
          /\ failed' = IF wild THEN "cancel_read: uninitialized data slot" ELSE failed
    /\ IF uData = CxPtr
       THEN /\ uResult' = ECANCELED
            /\ uTask' = FALSE
            /\ uPc' = IF uTask THEN "woken" ELSE uPc
       ELSE UNCHANGED <<uResult, uTask, uPc>>
    /\ UNCHANGED <<stillVars, atVars, uBuf, uData, uLent, uRet, uEmpty>>

\* recv_from after block: handle.set_data(0) and the result
UdpRecvReturn ==
    /\ Running
    /\ uPc = "woken"
    /\ uPc' = "idle"
    /\ uData' = None
    /\ uRet' = IF uResult < 0 THEN <<"Err", uResult>> ELSE <<"Ok", uResult>>
    /\ UNCHANGED <<stillVars, failed, atVars, uBuf, uTask, uResult, uStarted, uLent,
                   uEmpty, uTo>>

NextUdp ==
    \/ \E rs \in {0, EPIPE} : UdpRecvFrom(rs)
    \/ UdpAllocCb
    \/ \E nread \in Nreads : UdpRecvCb(nread)
    \/ \E dur \in {"None", "Some"} : UdpSetReadTimeout(dur)
    \/ UdpCancelRead
    \/ UdpRecvReturn

SpecUdp == Init /\ [][NextUdp]_vars

(***************************************************************************)
(* EventLoop::run, EventLoop::callback and Idle (event_loop.rs, idle.rs)   *)
(*                                                                         *)
(* A turn of run() calls the idle callback of every idle handle that was   *)
(* started when the turn began and still is; then the close callbacks of   *)
(* the closed handles run; run() goes on while a handle is started or      *)
(* closing.  Tasks call callback, resume, pause and drop between two       *)
(* callbacks.                                                              *)
(***************************************************************************)

Alive == \E i \in Idles : iActive[i] \/ iSt[i] = "closing"

\* EventLoop::callback(f): a new idle handle holding f, started with onetime
ElCallback(i) ==
    /\ Running
    /\ iKind[i] = "none"
    /\ iKind' = [iKind EXCEPT ![i] = "onetime"]
    /\ iSt' = [iSt EXCEPT ![i] = "init"]
    /\ iActive' = [iActive EXCEPT ![i] = TRUE]
    /\ UNCHANGED <<coreVars, atVars, udpVars, fsVars, iWant, iCalls, iSeen, iBad, lPc, lTodo>>

\* Idle::new(eloop, cb): the handle is not started
IdleNew(i) ==
    /\ Running
    /\ iKind[i] = "none"
    /\ iKind' = [iKind EXCEPT ![i] = "idle"]
    /\ iSt' = [iSt EXCEPT ![i] = "init"]
    /\ UNCHANGED <<coreVars, atVars, udpVars, fsVars, iActive, iWant, iCalls, iSeen, iBad, lPc,
                   lTodo>>

\* start that stops a started handle
idle_start_toggle(a) == ~a
\* handle.start(idle_cb): starting a started handle changes nothing
idle_start(a) == TRUE

\* handle.stop(): stopping a stopped handle changes nothing
idle_stop(a) == FALSE

\* resume(): self.handle.start(idle_cb)
IdleResume(i) ==
    /\ Running
    /\ iKind[i] = "idle"
    /\ iSt[i] = "init"
    /\ iActive' = [iActive EXCEPT ![i] = idle_start(@)]
    /\ iWant' = [iWant EXCEPT ![i] = TRUE]
    /\ lTodo' = IF idle_start(iActive[i]) THEN lTodo ELSE lTodo \ {i}
    /\ UNCHANGED <<coreVars, atVars, udpVars, fsVars, iKind, iSt, iCalls, iSeen, iBad, lPc>>

\* pause(): self.handle.stop()
IdlePause(i) ==
    /\ Running
    /\ iKind[i] = "idle"
    /\ iSt[i] = "init"
    /\ iActive' = [iActive EXCEPT ![i] = idle_stop(@)]
    /\ iWant' = [iWant EXCEPT ![i] = FALSE]
    /\ lTodo' = IF idle_stop(iActive[i]) THEN lTodo ELSE lTodo \ {i}
    /\ iSeen' = [iSeen EXCEPT ![i] = IF @ = "due" THEN "off" ELSE @]
    /\ UNCHANGED <<coreVars, atVars, udpVars, fsVars, iKind, iSt, iCalls, iBad, lPc>>

\* Drop for Idle: stop and close_and_free
IdleDrop(i) ==
    /\ Running
    /\ iKind[i] = "idle"
    /\ iSt[i] = "init"
    /\ iSt' = [iSt EXCEPT ![i] = "closing"]
    /\ iActive' = [iActive EXCEPT ![i] = FALSE]
    /\ iWant' = [iWant EXCEPT ![i] = FALSE]
    /\ lTodo' = lTodo \ {i}
    /\ iSeen' = [iSeen EXCEPT ![i] = IF @ = "due" THEN "off" ELSE @]
    /\ UNCHANGED <<coreVars, atVars, udpVars, fsVars, iKind, iCalls, iBad, lPc>>

\* run(): uv_run(RUN_DEFAULT) enters its first turn if a handle is started
\* or closing and returns at once if none is
ElRun ==
    /\ Running
    /\ lPc = "out"
    /\ Alive
    /\ lPc' = "idle"
    /\ lTodo' = {i \in Idles : iActive[i]}
    /\ iSeen' = [i \in Idles |-> IF iWant[i] THEN "due" ELSE "off"]
    /\ UNCHANGED <<coreVars, atVars, udpVars, fsVars, iKind, iSt, iActive, iWant, iCalls, iBad>>

\* onetime without idle.close_and_free()
onetime_close_keep(st) == st
\* onetime: idle.close_and_free()
onetime_close(st) == "closing"

\* onetime(handle): f is taken out of the data slot, the handle is closed,
\* then f is called
Onetime(i) ==
    /\ Running
    /\ lPc = "idle"
    /\ i \in lTodo
    /\ iKind[i] = "onetime"
    /\ iSt' = [iSt EXCEPT ![i] = onetime_close(@)]
    /\ iActive' = [iActive EXCEPT ![i] = onetime_close(iSt[i]) # "closing"]
    /\ iCalls' = [iCalls EXCEPT ![i] = IF @ < MaxCalls THEN @ + 1 ELSE @]
    /\ lTodo' = lTodo \ {i}
    /\ UNCHANGED <<coreVars, atVars, udpVars, fsVars, iKind, iWant, iSeen, iBad, lPc>>

\* idle_cb(handle): data.callback.call()
IdleCb(i) ==
    /\ Running
    /\ lPc = "idle"
    /\ i \in lTodo
    /\ iKind[i] = "idle"
    /\ iCalls' = [iCalls EXCEPT ![i] = IF @ < MaxCalls THEN @ + 1 ELSE @]
    /\ iSeen' = [iSeen EXCEPT ![i] = "called"]
    /\ iBad' = [iBad EXCEPT ![i] = @ \/ ~iWant[i]]
    /\ lTodo' = lTodo \ {i}
    /\ UNCHANGED <<coreVars, atVars, udpVars, fsVars, iKind, iSt, iActive, iWant, lPc>>

\* the reactor has called every idle handle of the turn
ElIdleDone ==
    /\ Running
    /\ lPc = "idle"
    /\ lTodo = {}
    /\ lPc' = "close"
    /\ UNCHANGED <<coreVars, atVars, udpVars, fsVars, iKind, iSt, iActive, iWant, iCalls, iSeen,
                   iBad, lTodo>>

\* close_and_free::done: the close callback frees the handle
IdleCloseCb(i) ==
    /\ Running
    /\ lPc = "close"
    /\ iSt[i] = "closing"
    /\ iSt' = [iSt EXCEPT ![i] = "freed"]
    /\ UNCHANGED <<coreVars, atVars, udpVars, fsVars, iKind, iActive, iWant, iCalls, iSeen, iBad,
                   lPc, lTodo>>

\* end of the turn: the next turn begins if a handle is started, else run()
\* returns
ElTurnEnd ==
    /\ Running
    /\ lPc = "close"
    /\ \A i \in Idles : iSt[i] # "closing"
    /\ IF Alive
       THEN /\ lPc' = "idle"
            /\ lTodo' = {i \in Idles : iActive[i]}
            /\ iSeen' = [i \in Idles |-> IF iWant[i] THEN "due" ELSE "off"]
       ELSE /\ lPc' = "out"
            /\ UNCHANGED <<lTodo, iSeen>>
    /\ UNCHANGED <<coreVars, atVars, udpVars, fsVars, iKind, iSt, iActive, iWant, iCalls, iBad>>

NextIdle ==
    \/ \E i \in Idles : ElCallback(i)
    \/ \E i \in Idles : IdleNew(i)
    \/ \E i \in Idles : IdleResume(i)
    \/ \E i \in Idles : IdlePause(i)
    \/ \E i \in Idles : IdleDrop(i)
    \/ ElRun
    \/ \E i \in Idles : Onetime(i)
    \/ \E i \in Idles : IdleCb(i)
    \/ ElIdleDone
    \/ \E i \in Idles : IdleCloseCb(i)
    \/ ElTurnEnd

SpecIdle == Init /\ [][NextIdle]_vars

(***************************************************************************)
(* mkdir_recursive and rmdir_recursive over a small filesystem (fs.rs)     *)
(*                                                                         *)
(* The root is a directory.  A symlink stands at a path of full length     *)
(* and points to a directory outside the tree that holds one file, the     *)
(* canary.  stat follows symlinks, lstat does not.                         *)
(***************************************************************************)

Parent(p) == SubSeq(p, 1, Len(p) - 1)
Above(q, p) == Len(q) < Len(p) /\ SubSeq(p, 1, Len(q)) = q
Kind(f, p) == IF p = <<>> THEN "dir" ELSE f[p]
Children(f, p) == {q \in Paths : Len(q) = Len(p) + 1 /\ Parent(q) = p /\ f[q] # "none"}

\* stat(path)
stat(f, p) ==
    [rs |-> IF Kind(f, p) = "none" THEN ENOENT ELSE 0,
     kind |-> IF Kind(f, p) = "link" THEN "dir" ELSE Kind(f, p)]

\* lstat(path)
lstat(f, p) ==
    [rs |-> IF Kind(f, p) = "none" THEN ENOENT ELSE 0, kind |-> Kind(f, p)]

\* mkdir(path, mode)
mkdir(f, p) ==
    IF Kind(f, p) # "none" THEN [fs |-> f, rs |-> EEXIST]
    ELSE IF Kind(f, Parent(p)) = "none" THEN [fs |-> f, rs |-> ENOENT]
    ELSE IF Kind(f, Parent(p)) # "dir" THEN [fs |-> f, rs |-> ENOTDIR]
    ELSE [fs |-> [f EXCEPT ![p] = "dir"], rs |-> 0]

\* rmdir that removes nothing
rmdir_keep(f, p) == [fs |-> f, rs |-> 0]
\* rmdir(path)
rmdir(f, p) ==
    IF Kind(f, p) = "none" THEN [fs |-> f, rs |-> ENOENT]
    ELSE IF Kind(f, p) # "dir" THEN [fs |-> f, rs |-> ENOTDIR]
    ELSE IF Children(f, p) # {} THEN [fs |-> f, rs |-> ENOTEMPTY]
    ELSE [fs |-> [f EXCEPT ![p] = "none"], rs |-> 0]

\* mkdir_recursive, the loop over the components from the k-th on
RECURSIVE mkdir_comps(_, _, _)
mkdir_comps(f, p, k) ==
    IF k > Len(p) THEN [fs |-> f, rs |-> 0]
    ELSE LET curpath == SubSeq(p, 1, k)
             result == mkdir(f, curpath)
         IN  IF result.rs < 0
             THEN IF stat(f, curpath).rs < 0
                  THEN [fs |-> f, rs |-> stat(f, curpath).rs]
                  ELSE IF stat(f, curpath).kind # "dir"
                  THEN [fs |-> f, rs |-> result.rs]
                  ELSE mkdir_comps(f, p, k + 1)
             ELSE mkdir_comps(result.fs, p, k + 1)

\* mkdir_recursive(path, mode)
mkdir_recursive(f, p) ==
    IF stat(f, p).rs = 0 /\ stat(f, p).kind = "dir"
    THEN [fs |-> f, rs |-> 0]
    ELSE mkdir_comps(f, p, 1)

\* the elements of a set in some order
RECURSIVE SetToSeq(_)
SetToSeq(S) ==
    IF S = {} THEN <<>>
    ELSE LET x == CHOOSE y \in S : TRUE IN <<x>> \o SetToSeq(S \ {x})

\* rmdir_recursive, the loop over rm_stack. readdir of a symlink lists the
\* directory it points to, whose file is then unlinked through the link.
RECURSIVE rm_loop(_, _, _)
rm_loop(f, can, rm_stack) ==
    IF rm_stack = <<>> THEN [fs |-> f, canary |-> can, rs |-> 0]
    ELSE LET top == rm_stack[Len(rm_stack)]
             children == Children(f, top)
             dirs == {q \in children : lstat(f, q).kind = "dir"}
             unlinked == [q \in Paths |-> IF q \in children \ dirs THEN "none" ELSE f[q]]
             d == rmdir(unlinked, top)
         IN  IF Kind(f, top) = "none" THEN [fs |-> f, canary |-> can, rs |-> ENOENT]
             ELSE IF Kind(f, top) = "file" THEN [fs |-> f, canary |-> can, rs |-> ENOTDIR]
             ELSE IF Kind(f, top) = "link"
             THEN [fs |-> f, canary |-> FALSE, rs |-> ENOTDIR]
             ELSE IF dirs # {} THEN rm_loop(unlinked, can, rm_stack \o SetToSeq(dirs))
             ELSE IF d.rs < 0 /\ d.rs # ENOENT
             THEN [fs |-> unlinked, canary |-> can, rs |-> d.rs]
             ELSE rm_loop(d.fs, can, SubSeq(rm_stack, 1, Len(rm_stack) - 1))

\* rmdir_recursive(path)
rmdir_recursive(f, can, p) == rm_loop(f, can, <<p>>)

\* the bookkeeping of a round trip is forgotten when the tree is changed
FsBuild ==
    /\ fsPhase # "made"
    /\ fsPhase' = "build"
    /\ fsP' = <<>>
    /\ fsOrig' = NoFs
    /\ canOrig' = TRUE
    /\ fsRs' = <<>>
    /\ UNCHANGED <<coreVars, atVars, udpVars, idleVars, canary>>

\* mkdir(p, mode)
FsMkdir(p) ==
    /\ Running
    /\ mkdir(fs, p).rs = 0
    /\ fs' = mkdir(fs, p).fs
    /\ FsBuild

\* File::create(p)
FsCreate(p) ==
    /\ Running
    /\ Kind(fs, p) = "none"
    /\ Kind(fs, Parent(p)) = "dir"
    /\ fs' = [fs EXCEPT ![p] = "file"]
    /\ FsBuild

\* symlink(d2, p)
FsSymlink(p) ==
    /\ Running
    /\ Len(p) = PathLen
    /\ Kind(fs, p) = "none"
    /\ Kind(fs, Parent(p)) = "dir"
    /\ fs' = [fs EXCEPT ![p] = "link"]
    /\ FsBuild

\* mkdir_recursive(p, mode)
FsMkdirRecursive(p) ==
    /\ Running
    /\ fsPhase # "made"
    /\ fsPhase' = "made"
    /\ fsP' = p
    /\ fsOrig' = fs
    /\ canOrig' = canary
    /\ fs' = mkdir_recursive(fs, p).fs
    /\ fsRs' = <<mkdir_recursive(fs, p).rs>>
    /\ UNCHANGED <<coreVars, atVars, udpVars, idleVars, canary>>

\* rmdir_recursive(p), right after mkdir_recursive(p, mode)
FsRmdirRecursive ==
    /\ Running
    /\ fsPhase = "made"
    /\ fsPhase' = "removed"
    /\ fs' = rmdir_recursive(fs, canary, fsP).fs
    /\ canary' = rmdir_recursive(fs, canary, fsP).canary
    /\ fsRs' = Append(fsRs, rmdir_recursive(fs, canary, fsP).rs)
    /\ UNCHANGED <<coreVars, atVars, udpVars, idleVars, fsP, fsOrig, canOrig>>

NextFs ==
    \/ \E p \in Paths : FsMkdir(p)
    \/ \E p \in Paths : FsCreate(p)
    \/ \E p \in Paths : FsSymlink(p)
    \/ \E p \in Paths : FsMkdirRecursive(p)
    \/ FsRmdirRecursive

SpecFs == Init /\ [][NextFs]_vars

(***************************************************************************)
(* Several Signals and the signals of the process (signal.rs)              *)
(***************************************************************************)

NextSignal ==
    \/ \E s \in Signals : SgNew(s)
    \/ \E s \in Signals, num \in Signums, rs \in {0, EPIPE} : SgStart(s, num, rs)
    \/ \E s \in Signals, rs \in {0, EPIPE} : SgStop(s, rs)
    \/ \E num \in Signums : SignalCb(num)
    \/ \E s \in Signals : SgDrop(s)

SpecSignal == Init /\ [][NextSignal]_vars

(***************************************************************************)
(* Claims about block/wakeup, checked under SpecBlock                      *)
(***************************************************************************)

\* C4: the loop's blocker count equals the number of tasks parked in
\* block() on the loop, in every reachable state.
C4_BlockerCountExact ==
    loopData = Cardinality({t \in Tasks : pc[t] = "opWait"})

\* A published slot holds its own parked, not yet reawakened task.
C5_SlotInv ==
    \A t \in Tasks :
        /\ wakes[t] <= 1
        /\ slot[t] # None => (slot[t] = t /\ pc[t] = "opWait" /\ wakes[t] = 0)
        /\ wakes[t] = 1 => (slot[t] = None /\ pc[t] = "opWait")
\* Steps that reawaken a task, and the step that fails the assertion.
C5_WakeupStep ==
    /\ \A t \in Tasks :
        (wakes'[t] > wakes[t]) =>
            /\ slot[t] = t
            /\ slot'[t] = None
            /\ wakes'[t] = wakes[t] + 1
            /\ failed' = ""
    /\ (failed = "" /\ failed' # "") =>
            /\ \E t \in Tasks : slot[t] = None
            /\ wakes' = wakes
            /\ slot' = slot
\* C5: wakeup on a slot holding a BlockedTask empties the slot and reawakens
\* that task once; wakeup on an empty slot fails its assertion and reawakens
\* nothing; so a task parked by block() is reawakened at most once through
\* the slot it published.
C5_WakeupContract == []C5_SlotInv /\ [][C5_WakeupStep]_vars
C5_Witness ==
    /\ failed = "wakeup: assert!(slot.is_some())"
    /\ \E t \in Tasks : pc[t] = "opWait" /\ wakes[t] = 1 /\ slot[t] = None

(***************************************************************************)
(* Claims about the read side of a cloned stream, checked under SpecRead   *)
(***************************************************************************)

\* C1: a task parked in a reactor read under TimeoutPending(RequestPending)
\* is reawakened exactly once whatever the order of read_cb and timer_cb,
\* and the callback that fires second neither reawakens it again nor fails
\* (runs with close_read are left aside: the race is read_cb against timer_cb).
C1_RequestRaceSafe ==
    ~closed =>
        /\ \A t \in Tasks : pc[t] = "readWait" => wakes[t] <= 1
        /\ failed \notin {"timer_cb: user_unblock returned None",
                          "wakeup: assert!(slot.is_some())"}

\* C2: a task queued on the Access under TimeoutPending(AccessPending) is
\* reawakened exactly once whatever the order of the holder's release and
\* timer_cb, and timer_cb never looks for a waiter that is no longer queued.
C2_AccessRaceSafe ==
    /\ \A t \in Tasks : pc[t] = "grantWait" => wakes[t] <= 1
    /\ failed # "timer_cb: dequeue returned None"

\* A task holds its guards exactly while it is parked in Stream::read.
C3_Holders == {t \in Tasks : pc[t] = "readWait"}
\* C3: at most one task holds a grant of the Access, and a waiter dequeued
\* by its timeout does not release the holder's tenancy.
C3_SingleTenancy ==
    /\ Cardinality(C3_Holders) <= 1
    /\ C3_Holders # {} => held

\* In state NoTimeout no timer is armed.
C6_StateInv ==
    \A t \in Tasks : state[t] = "NoTimeout" => ~timerArmed[t]
\* A call that returns from "idle" or "grantWait" returns from grant or from
\* a failed read_start; a read that was started returns from "readWait".
C6_GrantStep ==
    \A t \in Tasks :
        /\ (state[t] = "TimedOut" /\ pc[t] = "idle" /\ pc'[t] # "idle") =>
            /\ pc'[t] = "done"
            /\ ret'[t] = <<ECANCELED>>
            /\ UNCHANGED <<state, timerArmed, held, queue, data, reading, slot,
                           wakes, loopData>>
        /\ (pc[t] \in {"idle", "grantWait"} /\ pc'[t] = "done"
                /\ ret'[t] = <<ECANCELED>>) =>
            /\ state[t] = "TimedOut"
            /\ state'[t] = "TimedOut"
        /\ (state[t] \in {"TimedOut", "NoTimeout"} /\ state'[t] # state[t]) =>
            /\ pc[t] = "idle"
            /\ pc'[t] = "idle"
            /\ state'[t] \in {"NoTimeout", "NoWaiter"}
\* C6: once the timer has fired (TimedOut) every grant returns ECANCELED
\* without queueing, parking or starting a read, until set_timeout is called
\* again; after set_timeout(None) the state is NoTimeout, no timer is armed
\* and a grant returns ECANCELED only in state TimedOut.
C6_TimedOutCancels == []C6_StateInv /\ [][C6_GrantStep]_vars
C6_Witness ==
    \E t, u \in Tasks :
        /\ t # u
        /\ state[t] = "TimedOut"
        /\ pc[t] = "done"
        /\ ret[t] = <<ECANCELED>>
        /\ pc[u] = "readWait"
        /\ held

\* C8: after close_read has returned, every later uv_read on every clone
\* returns EOF, whatever the clone's read-timeout state, and starts no
\* reactor read.
C8_EofAfterClose ==
    \A t \in Tasks :
        afterClose[t] =>
            /\ pc[t] # "readWait"
            /\ pc[t] = "done" => ret[t] = <<EOF>>

\* C9: a task parked in uv_read, or queued for the read access, when
\* another clone calls close_read is reawakened exactly once and its read
\* returns EOF; while it waits, no callback fails.
C9_CloseWakesReader ==
    \A t \in atClose :
        /\ wakes[t] <= 1
        /\ pc[t] = "done" => ret[t] = <<EOF>>
        /\ pc[t] \in {"readWait", "grantWait"} => failed = ""

\* C39: the timer of an AccessTimeout is only armed while the state is
\* TimeoutPending, so timer_cb never finds NoTimeout or TimedOut.
C39_TimerOnlyWhilePending ==
    /\ \A t \in Tasks : timerArmed[t] => state[t] \in Pending
    /\ failed # "timer_cb: unreachable!() state"

\* A timeout has fired on one clone and left it TimedOut with the timer off,
\* while another clone, with no timeout, is parked in a read.
C39_Witness ==
    /\ failed = ""
    /\ \E t, u \in Tasks :
          /\ t # u
          /\ state[t] = "TimedOut" /\ ~timerArmed[t]
          /\ state[u] = "NoTimeout" /\ ~timerArmed[u] /\ pc[u] = "readWait"

\* C37: whenever no task is parked in Stream::read, the data slot of the
\* stream handle is null.
C37_SlotNullWhenIdle ==
    (\A t \in Tasks : pc[t] # "readWait") => data = None

(***************************************************************************)
(* Claims about the acceptor, checked under SpecAccept                     *)
(***************************************************************************)

\* C7: while the acceptor is not closed, every result pushed by the
\* listener's callback is either still pending or was returned by exactly
\* one accept call, and results are returned in the order pushed: the
\* returned results followed by the pending ones are the pushed ones.
C7_NoDropNoDup == ~closed => pushed = delivered \o pending
C7_Witness ==
    /\ ~closed
    /\ Len(delivered) = 2
    /\ pending = <<>>
    /\ \E t, u \in Tasks :
        /\ t # u
        /\ state[t] = "TimedOut"
        /\ ret[t] = <<2>>
        /\ state[u] = "NoTimeout"

\* C10: after close_accept has returned, every later accept on every clone
\* returns EOF, whatever the clone's accept-timeout state.
C10_EofAfterCloseAccept ==
    \A t \in Tasks : (afterClose[t] /\ pc[t] = "done") => ret[t] = <<EOF>>

\* An accept call of task t that started after close_accept returns in this
\* step, with a result at the head of pending that was pushed before the
\* close.
C11_ReturnsAfterClose(t) ==
    /\ closed
    /\ afterClose'[t]
    /\ pc[t] # "done"
    /\ pc'[t] = "done"
    /\ pending # <<>>
    /\ Head(pending) <= closedAt
\* C11: results pushed to pending before close_accept was called are still
\* returned by the accept calls that follow the close, not discarded in
\* favour of EOF: a call returning with such a result at the head of
\* pending returns it.
C11_PendingSurvivesClose ==
    [][\A t \in Tasks :
          C11_ReturnsAfterClose(t) =>
              /\ ret'[t] = <<Head(pending)>>
              /\ pending' = Tail(pending)]_vars

\* C12: a task parked in accept when another clone calls close_accept is
\* reawakened exactly once and its accept returns EOF; while it is parked
\* no callback fails.
C12_CloseWakesAcceptor ==
    \A t \in atClose :
        /\ wakes[t] <= 1
        /\ pc[t] = "done" => ret[t] = <<EOF>>
        /\ pc[t] = "acceptWait" => failed = ""

\* C30: a call that returns ECANCELED was issued through a clone whose own
\* timeout has expired: no accept issued through a clone without an expired
\* timeout is cancelled by the timeout of another clone.
C30_OwnTimeoutOnly ==
    \A t \in Tasks : ret[t] = <<ECANCELED>> => state[t] = "TimedOut"

\* C36: an accept call made through a clone on which no timeout is set
\* never returns ECANCELED: the connection an acceptor was reawakened for is
\* still there when it resumes.
C36_NoTimeoutNeverCancelled ==
    \A t \in Tasks : state[t] = "NoTimeout" => ret[t] # <<ECANCELED>>

(***************************************************************************)
(* Claims about connect and the thread-local loop, checked under           *)
(* SpecConnect                                                             *)
(***************************************************************************)

\* Task t has returned from a connect with a positive timeout in which a
\* callback ran.
C13_Raced(t) == pc[t] = "done" /\ timeoutArg[t] = "Pos" /\ fired[t] # <<>>
\* C13: in a connect with a positive timeout the callback that fires first
\* decides: timer first, the call returns ECANCELED even when connect_cb
\* arrives before the task has resumed; connect_cb first, the call returns
\* the connect status and the timer never fires.
C13_FirstWins ==
    \A t \in Tasks :
        C13_Raced(t) =>
            IF fired[t][1].by = "timer"
            THEN ret[t] = <<ECANCELED>>
            ELSE ret[t] = <<fired[t][1].status>> /\ Len(fired[t]) = 1
\* C13 as amended: the call returns the status stored by the last callback
\* that ran before the task resumed (the connect status when connect_cb
\* arrives after the timer but before the resume); after connect_cb the
\* timer never fires; the task is reawakened once and no wakeup fails.
C13_LastBeforeResumeWins ==
    /\ failed # "wakeup: assert!(slot.is_some())"
    /\ \A t \in Tasks :
        /\ wakes[t] <= 1
        /\ Len(fired[t]) <= 2
        /\ \A i \in 1..Len(fired[t]) : i > 1 => fired[t][i].by = "connect"
        /\ C13_Raced(t) => ret[t] = <<fired[t][Len(fired[t])].status>>
C13_Witness ==
    \E t \in Tasks :
        /\ C13_Raced(t)
        /\ Len(fired[t]) = 2
        /\ fired[t][1].by = "timer"
        /\ ret[t] = <<0>>

\* C14: connect with a timeout of zero or less returns ECANCELED without
\* submitting a connect request to the reactor and without parking.
C14_ZeroTimeoutTouchesNothing ==
    \A t \in Tasks :
        timeoutArg[t] = "Zero" =>
            /\ pc[t] # "connWait"
            /\ (pc[t] = "done" /\ ret[t] # <<UNKNOWN>>) =>
                    (ret[t] = <<ECANCELED>> /\ ~reqLive[t])

\* C15: while one task is parked inside a connect started through the
\* thread-local loop, a second task on that loop that calls connect also
\* obtains the thread-local loop: its call does not fail with the error of
\* borrow (the loop is not left borrowed by the parked task).
C15_ConnectsOverlap ==
    \A t \in Tasks :
        (pc[t] = "done" /\ \E u \in Tasks \ {t} : pc[u] = "connWait") =>
            ret[t] # <<UNKNOWN>>

\* C18: has_active_io() returns true if and only if the loop's blocker
\* count is greater than 0.
C18_HasActiveIoExact ==
    hasIo # <<>> => (hasIo[1] <=> hasIo[2] > 0)

(***************************************************************************)
(* Claims about run() and borrow(), checked under SpecLoop                 *)
(***************************************************************************)

\* C16: borrow succeeds only while the thread is inside run() and no
\* BorrowedEventLoop of the thread is live, else it returns the error and
\* changes nothing; the drop restores the pointer; hence at most one
\* BorrowedEventLoop exists per thread at any time.
C16_OneBorrowPerThread ==
    /\ \A t \in Tasks : borrowed[t] # None => tls # <<>>
    /\ Cardinality({t \in Tasks : borrowed[t] # None}) <= 1

\* C17: run() on a thread where a current loop is already published is
\* rejected, and the published loop stays the current one: no second
\* run() is ever in progress on the thread.
C17_NestedRunRejected == Len(tls) <= 1

(***************************************************************************)
(* Claims about homing, checked under SpecHome                             *)
(***************************************************************************)

C24_RequestNotUsedAfterFree ==
    \A t \in Tasks :
        /\ reqFrees[t] <= 1
        /\ reqFrees[t] = 1 => ~reqLive[t]
        /\ ~reqUaf[t]

(***************************************************************************)
(* Claims about the wakeup queue, checked under SpecQueue                  *)
(***************************************************************************)

\* task t is in the queue it was put on
C21_Queued(t) == \E i \in 1..Len(wq[qTarget[t]]) : wq[qTarget[t]][i][1] = t
\* C21: every task enqueued on a loop's wakeup queue is reawakened exactly
\* once and on the target loop, also when the fires of several producers
\* are coalesced into one callback; and no enqueued task is stranded: while
\* a queue holds a message, its callback is running, a fire is pending, or
\* a producer that has pushed is still to fire.
C21_EnqueuedWokenOnce ==
    \A t \in Tasks :
        /\ qWakes[t] <= 1
        /\ qpc[t] # "idle" => (qWakes[t] = 1) # C21_Queued(t)
        /\ qWakes[t] = 1 => qWokenOn[t] = qTarget[t]
        /\ \A l \in Loops :
             wq[l] # <<>> =>
                \/ cbActive[l]
                \/ asyncPend[l]
                \/ \E u \in Tasks : qpc[u] = "pushed" /\ qTarget[u] = l
C21_Witness ==
    \E l \in Loops :
        /\ cbActive[l]
        /\ cbPopped[l] = 2
        /\ ~asyncPend[l]
        /\ \A t \in Tasks : qpc[t] = "sent" /\ qTarget[t] = l /\ qWakes[t] = 1

(***************************************************************************)
(* Claims about lifetimes, checked under SpecLife                          *)
(***************************************************************************)

\* C22: the reactor handle shared by the clones of a Tcp, Pipe or Udp is
\* closed exactly once, when the last clone is dropped: never while a
\* clone exists or an operation through a clone is in flight, and always
\* once no clone is left.
C22_ClosedWithLastClone ==
    objKind \in Shared =>
        /\ closeReqs <= 1
        /\ closeReqs = 1 => (nClones = 0 /\ inOps = 0)
        /\ nClones = 0 => closeReqs = 1
C22_Witness ==
    /\ objKind \in Shared
    /\ everCloned
    /\ nClones = 0
    /\ closeReqs = 1
    /\ hSt = "closing"

\* C23: every reactor handle of a facade object has close requested at
\* most once, one close callback runs for each request, and the handle is
\* freed once, in or after that close callback, never before it.
C23_CloseOnceFreeAfter ==
    /\ closeReqs <= 1
    /\ closeCbs <= closeReqs
    /\ frees <= closeCbs
    /\ hSt = "freed" => (closeReqs = 1 /\ closeCbs = 1 /\ frees = 1)
    /\ (nClones = 0 /\ objKind \notin {"none", "async"} /\ hSt # "none") => closeReqs = 1
C23_Witness ==
    /\ objKind = "timer"
    /\ hSt = "freed"
    /\ closeReqs = 1
    /\ closeCbs = 1
    /\ frees = 1

\* C25: the effects of the EventLoop destructor come in this order, each
\* once: the queue pool is dropped, the loop is run a last time, the
\* reactor loop is closed, the pool's wakeup handle is freed, the reactor
\* loop is freed.
C25_DropOrder ==
    LET steps == <<"dropPool", "run", "closeLoop", "freeHandle", "freeLoop">> IN
    /\ Len(elLog) <= Len(steps)
    /\ \A i \in 1..Len(elLog) : elLog[i] = steps[i]

\* C29: the handle of a dropped Async is closed at most once and only
\* after callback.call() was entered after the destructor's send; until
\* then a send is pending or async_cb is running; and no send is issued on
\* the handle after it was closed.
C29_FinalCallThenClose ==
    objKind = "async" =>
        /\ closeReqs <= 1
        /\ closeReqs = 1 => (aFlag /\ aAfterFinal)
        /\ (aFlag /\ hSt = "open" /\ aCb = "idle") => aPend
        /\ ~aSendClosed
C29_Witness ==
    /\ objKind = "async"
    /\ hSt = "freed"
    /\ closeReqs = 1
    /\ aAfterFinal
    /\ aPend

(***************************************************************************)
(* Claims about the Timer and the Signal, checked under SpecTimer          *)
(***************************************************************************)

\* callback c was handed to the Timer and a later call has replaced it
C26_Replaced(c) == c \in tmCbs /\ ~(HasCb(tmCur) /\ tmCur.who = c)

\* C26 as stated: timer_cb only takes the action that the most recent call
\* on the Timer installed, and the callback of every earlier call has been
\* dropped once the call that replaced it has returned.
C26_ReplacedDroppedByCall ==
    /\ ~tmStale
    /\ \A c \in 1..nextCb : C26_Replaced(c) => cbDrops[c] = 1

\* C26, amended: timer_cb only takes the action that the most recent call
\* on the Timer installed, and the callback of every earlier call has been
\* dropped exactly once when the replacing call has returned, unless
\* timer_cb was invoking it during that call: then it is not dropped until
\* the invocation returns, and timer_cb drops it.
C26_OnlyLatestInvoked ==
    /\ ~tmStale
    /\ \A c \in 1..nextCb :
          /\ cbDrops[c] <= 1
          /\ C26_Replaced(c) =>
                \/ cbDrops[c] = 1
                \/ cbDrops[c] = 0 /\ HasCb(tmCall) /\ tmCall.who = c
          /\ (cbDrops[c] = 1 /\ c \in tmCbs /\ cbBy[c] = "timer_cb") => tmCall.who # c

\* A callback was dropped by the call that replaced it, and another one is
\* being invoked by timer_cb while a later call has replaced it.
C26_Witness ==
    /\ \E c \in 1..nextCb :
          C26_Replaced(c) /\ cbDrops[c] = 1 /\ cbBy[c] \in {"sleep", "oneshot", "periodic"}
    /\ HasCb(tmCall) /\ C26_Replaced(tmCall.who) /\ tmCur # NoAction

\* C27: a task parked in Timer::sleep has been reawakened once, or the
\* reactor timer is armed one-shot with a timeout that elapses and holds the
\* task's WakeTask; a sleep of zero or negative length arms it with 0 ms;
\* no task is reawakened twice.
C27_SleepWakesOnce ==
    \A t \in Tasks :
        /\ wakes[t] <= 1
        /\ pc[t] = "sleepWait" =>
              \/ wakes[t] = 1 /\ tmAction.kind # "WakeTask" /\ tmArmed = "off"
              \/ /\ wakes[t] = 0
                 /\ tmSt = "live" /\ tmArmed = "once" /\ Elapses(tmMs)
                 /\ tmAction = Act("WakeTask", t, 0)
                 /\ tmDur <= 0 => tmMs = 0

\* A sleep of zero or negative length whose task timer_cb has reawakened.
C27_Witness ==
    \E t \in Tasks : pc[t] = "sleepWait" /\ wakes[t] = 1 /\ tmDur <= 0 /\ opName = "sleep"

\* the missile is held before step i of the operation
C28_Held(i) ==
    Cardinality({j \in 1..(i - 1) : opLog[j] = "fire"})
        > Cardinality({j \in 1..(i - 1) : opLog[j] = "unfire"})

\* C28: in every operation on the Timer or the Signal, the destructor of
\* the previously installed callback runs with no homing missile of the
\* operation held.
C28_DropOutsideMissile ==
    \A i \in 1..Len(opLog) : opLog[i] = "dropcb" => ~C28_Held(i)

\* A sleep that dropped the callback of the previous oneshot or periodic.
C28_Witness ==
    /\ opName = "sleep"
    /\ \E i \in 1..Len(opLog) : opLog[i] = "dropcb"
    /\ \E c \in 1..nextCb : cbBy[c] = "sleep" /\ cbDrops[c] = 1

\* C38: the action installed on a Timer is never a stale one: it is the
\* action set by the most recent call, also when timer_cb returns from a
\* periodic callback during which the Timer was reset; once the Timer is
\* dropped no action is installed, the assertion of close_cb holds, and the
\* data block is freed with no timer_cb still using it.
C38_StaleNotReinstalled ==
    /\ tmAction # NoAction => tmAction = tmCur
    /\ tmSt \in {"closing", "freed"} => tmAction = NoAction
    /\ failed # "close_cb: assert action.is_none()"
    /\ tmSt = "freed" => tmCall = NoAction

\* timer_cb has returned from a periodic callback during which the Timer
\* was reset, and the action of the resetting call is installed.
C38_Witness ==
    /\ opName = "timer_cb"
    /\ opLog = <<"call", "stale", "dropcb">>
    /\ tmSt = "live"
    /\ tmCur # NoAction
    /\ tmAction = tmCur

\* C40: the timeout handed to a reactor timer is never negative: sleep and
\* oneshot hand 0 ms for a duration <= 0, periodic hands 1 ms and a repeat,
\* AccessTimeout::set_timeout hands 0 ms for a negative duration and the
\* duration itself otherwise.
C40_MsNeverNegative ==
    /\ tmMs >= 0
    /\ atMs >= 0
    /\ (tmCur.kind \in {"WakeTask", "CallOnce"} /\ tmDur <= 0) => tmMs = 0
    /\ (tmCur.kind = "CallMany" /\ tmDur <= 0) => tmMs = 1
    /\ (tmCur.kind = "CallMany" /\ tmSt = "live") => tmArmed = "repeat"
    /\ atMs = (IF atDur < 0 THEN 0 ELSE atDur)

\* A periodic with a negative duration has fired, its callback has been put
\* back and the timer is still armed; a negative timeout was set as well.
C40_Witness ==
    /\ tmCur.kind = "CallMany"
    /\ tmDur < 0
    /\ opName = "timer_cb"
    /\ opLog = <<"call", "restore">>
    /\ tmArmed = "repeat"
    /\ atDur < 0

(***************************************************************************)
(* Claims about Signal, checked under SpecSignal                           *)
(***************************************************************************)

\* C34: a Signal that was stopped holds no callback and its reactor handle
\* is not started, so its callback is not invoked again; the callback it
\* held has been dropped, exactly once. A received signal invokes the
\* callback of every Signal still started on that number, none of them
\* dropped, and signal_cb always finds a callback installed.
C34_StoppedNeverInvoked ==
    /\ \A s \in Signals : sgOn[s] <=> sgCb[s] # None
    /\ \A c \in 1..nextCb :
          /\ cbDrops[c] <= 1
          /\ (cbDrops[c] = 1) # (\E s \in Signals : sgCb[s] = c)
    /\ opName = "signal_cb" =>
          /\ sgHit = {sgCb[s] : s \in Subscribed(sgSig)}
          /\ \A c \in sgHit : cbDrops[c] = 0
    /\ failed # "signal_cb: assert callback.is_some()"

\* Two Signals were started on one signal number, the second was stopped
\* and its callback dropped by stop; the signal then invoked the callback
\* of the first one only.
C34_Witness ==
    /\ opName = "signal_cb"
    /\ sgOn[1] /\ sgNum[1] = sgSig
    /\ sgSt[2] = "live" /\ ~sgOn[2] /\ sgNum[2] = sgSig
    /\ sgHit = {sgCb[1]}
    /\ \E c \in 1..nextCb : cbDrops[c] = 1 /\ cbBy[c] = "stop"

(***************************************************************************)
(* Claims about Udp::recv_from, checked under SpecUdp                      *)
(***************************************************************************)

\* C31: while the task of recv_from is parked the receive is started and no
\* result is stored, whatever the number of empty recv callbacks; between
\* callbacks the context holds the buffer, so alloc_cb never finds it
\* taken; the task is woken with a nread other than 0 only and recv_from
\* never returns Ok with 0 bytes.
C31_EmptyRecvRetried ==
    /\ uPc = "parked" => uStarted /\ uTask /\ uResult = None
    /\ (uStarted /\ ~uLent) => uBuf
    /\ failed # "recv alloc_cb called more than once"
    /\ uPc = "woken" => uResult \notin {None, 0}
    /\ uRet # <<"Ok", 0>>

\* recv_from returned a datagram after empty callbacks, the second of which
\* found the buffer handed back by the first.
C31_Witness ==
    /\ uPc = "idle"
    /\ uRet = <<"Ok", 1>>
    /\ uEmpty = MaxEmpty

(***************************************************************************)
(* Claims about EventLoop::callback and Idle, checked under SpecIdle       *)
(***************************************************************************)

\* C32: a function scheduled with callback(f) is invoked at most once; once
\* it was invoked its idle handle is closed and no longer started, so it
\* cannot fire again nor keep the loop alive; and when run() returns every
\* scheduled function was invoked exactly once and its handle is freed.
C32_CallbackRunsOnce ==
    [][/\ \A i \in Idles : iKind'[i] = "onetime" =>
            /\ iCalls'[i] <= 1
            /\ iCalls'[i] = 1 => ~iActive'[i] /\ iSt'[i] \in {"closing", "freed"}
       /\ (lPc # "out" /\ lPc' = "out") =>
            \A i \in Idles : iKind[i] = "onetime" =>
                iCalls'[i] = 1 /\ iSt'[i] = "freed"]_vars

\* run() has returned after invoking a scheduled function once, with no
\* handle left started.
C32_Witness ==
    /\ lPc = "out"
    /\ \E i \in Idles : iKind[i] = "onetime" /\ iCalls[i] = 1 /\ iSt[i] = "freed"
    /\ \A i \in Idles : ~iActive[i]

\* C33: the handle of an Idle is started exactly when the last call on it
\* was resume(), however many times pause() or resume() were repeated; its
\* callback is never invoked when the last call was pause(); and a turn
\* does not end before every Idle that was resumed when the turn began,
\* and not paused since, had its callback invoked.
C33_InvokedOnlyWhileResumed ==
    /\ \A i \in Idles : (iKind[i] = "idle" /\ iSt[i] = "init") => iActive[i] = iWant[i]
    /\ \A i \in Idles : ~iBad[i]
    /\ lPc = "close" => \A i \in Idles : iSeen[i] # "due"

\* At the end of a turn the first Idle, resumed, was invoked in this turn;
\* the second one was invoked in an earlier turn, then paused, and was
\* left out.
C33_Witness ==
    /\ lPc = "close"
    /\ iKind[1] = "idle" /\ iWant[1] /\ iSeen[1] = "called" /\ iCalls[1] = MaxCalls
    /\ iKind[2] = "idle" /\ iSt[2] = "init" /\ ~iWant[2] /\ iCalls[2] >= 1
    /\ iSeen[2] = "off"

(***************************************************************************)
(* Claims about mkdir_recursive and rmdir_recursive, checked under SpecFs  *)
(***************************************************************************)

\* C35 as stated: after mkdir_recursive(p) and rmdir_recursive(p) the
\* filesystem is what it was before the first call.
C35_RoundTripRestores ==
    fsPhase = "removed" => fs = fsOrig /\ canary = canOrig

\* C35: for a path p that did not exist before, mkdir_recursive(p) followed
\* by rmdir_recursive(p) removes p again and changes nothing that existed
\* before; the directories that the first call created above p remain, so
\* the filesystem is back in its original state when the parent of p
\* existed.
C35_RoundTripRestoresNewPath ==
    (fsPhase = "removed" /\ fsOrig[fsP] = "none") =>
        /\ canary = canOrig
        /\ fs = [q \in Paths |-> IF Above(q, fsP) /\ fsOrig[q] = "none" /\ fsRs[1] = 0
                                  THEN "dir" ELSE fsOrig[q]]
        /\ Kind(fsOrig, Parent(fsP)) = "dir" => fs = fsOrig /\ fsRs = <<0, 0>>

\* Both calls succeeded on a new path below an existing directory that
\* holds other entries, and the filesystem is as before.
C35_Witness ==
    /\ fsPhase = "removed"
    /\ fsOrig[fsP] = "none"
    /\ Len(fsP) = PathLen
    /\ fsRs = <<0, 0>>
    /\ fs = fsOrig
    /\ Children(fs, Parent(fsP)) # {}

====
